---- MODULE Spec2Model ----
(***************************************************************************)
(* Chicago Bears Clips: the article scraper (scripts/scraper.js), its      *)
(* extraction strategies, the source loop of run() and the merge/eviction  *)
(* step that rewrites public/data/articles.json.                           *)
(*                                                                         *)
(* Times are milliseconds since the epoch, as in the code.  A publishedAt  *)
(* value is a date string or null; it is represented by what Date makes of *)
(* it: NoDate for null / the empty string, BadDate for a non-empty string  *)
(* that Date cannot parse, and otherwise the instant (ms) it parses to.    *)
(***************************************************************************)
EXTENDS Integers, Sequences, FiniteSets, TLC

\* ------------------------------------------------------------------ bounds
\* Longest prior dataset and longest list of new drafts that are enumerated.
MaxExisting == 2
MaxNew == 2
\* Most items on a listing page, entries in a feed or in the API response.
MaxItems == 2
\* Daily runs after the first one.
MaxDays == 3
\* The clock reading (in hours since the epoch) at which a model run starts.
StartHour == 100
\* Ticks of the clock that are followed during one call of fetchPage.
MaxTicks == 6
\* Longest list of drafts handed to the enricher.
MaxDrafts == 12
\* Repetitions of a three-character word in the longest feed text.
MaxRepeat == 140
\* Hours on either side of the clock reading, and ms on either side of the
\* edge of the window, from which isRecent is given dates.
MaxAgeHours == 40
MaxSkewMs == 3

\* Calls of handleGenerate that wait for downloadDocx at the same time.
MaxGenerating == 2

\* Articles handed to generateDocx.
MaxSelected == 4

\* Drafts one source hands to the enricher in the request log.
MaxLinks == 2

\* --------------------------------------------------------------- constants
LOOKBACK_HOURS == 26
MAX_FOLLOW_PER_SITE == 10

\* null / "" as a publishedAt (falsy in JavaScript)
NoDate == -1
\* a non-empty string that new Date() cannot parse ("2 hours ago")
BadDate == -2
\* the result of getTime() on an Invalid Date
NaN == -3

HourMs == 60 * 60 * 1000

Hours(h) == h * HourMs

\* ---------------------------------------------------------------- utilities
\* JavaScript truthiness of a publishedAt value
Truthy(p) == p # NoDate

\* new Date(str).getTime()
GetTime(p) == IF p = BadDate THEN NaN ELSE p

\* x > y on JavaScript numbers: false whenever an operand is NaN
NumGt(x, y) == x # NaN /\ y # NaN /\ x > y

\* x < y on JavaScript numbers: false whenever an operand is NaN
NumLt(x, y) == x # NaN /\ y # NaN /\ x < y

\* Date.now() - LOOKBACK_HOURS * 60 * 60 * 1000
Cutoff(t) == t - LOOKBACK_HOURS * 60 * 60 * 1000

\* isRecent with the window taken to include its far edge
isRecentInclusive(p, t) ==
    IF ~Truthy(p) THEN TRUE
    ELSE IF GetTime(p) = NaN THEN TRUE
    ELSE t - GetTime(p) <= LOOKBACK_HOURS * 60 * 60 * 1000

\* isRecent(dateStr) at clock reading t
isRecent(p, t) ==
    IF ~Truthy(p) THEN TRUE
    ELSE IF GetTime(p) = NaN THEN TRUE
    ELSE t - GetTime(p) < LOOKBACK_HOURS * 60 * 60 * 1000

\* cleanText(str): runs of whitespace become one space, then trim
IsSpace(c) == c \in {" ", "\t", "\n"}

RECURSIVE Trim(_)
Trim(str) ==
    IF str = "" THEN ""
    ELSE IF IsSpace(Head(str)) THEN Trim(Tail(str))
    ELSE IF IsSpace(SubSeq(str, Len(str), Len(str)))
         THEN Trim(SubSeq(str, 1, Len(str) - 1))
    ELSE str

\* the characters of str from lo to hi, each replaced by what f makes of its
\* position (by halves, so that long texts do not nest deeply)
RECURSIVE Rewrite(_, _, _, _)
Rewrite(f(_, _), str, lo, hi) ==
    IF lo > hi THEN ""
    ELSE IF lo = hi THEN f(str, lo)
    ELSE Rewrite(f, str, lo, (lo + hi) \div 2) \o Rewrite(f, str, (lo + hi) \div 2 + 1, hi)

CharAt(str, i) == SubSeq(str, i, i)

\* what .replace(/\s+/g, ' ').trim() leaves of the character at i: a run of
\* whitespace gives one space at its first character, and nothing when the
\* run stands at the start or the end
CleanChar(str, i) ==
    IF ~IsSpace(CharAt(str, i)) THEN CharAt(str, i)
    ELSE IF i = 1 THEN ""
    ELSE IF IsSpace(CharAt(str, i - 1)) THEN ""
    ELSE IF \A j \in i..Len(str) : IsSpace(CharAt(str, j)) THEN ""
    ELSE " "

cleanText(str) == Rewrite(CleanChar, str, 1, Len(str))

\* urlToId(url): the first 16 hex digits of md5(url); never empty, and taken
\* as free of collisions on the URLs of a run
urlToId(url) == "md5:" \o url

StartsWith(str, prefix) ==
    Len(str) >= Len(prefix) /\ SubSeq(str, 1, Len(prefix)) = prefix

\* new URL(pageUrl).origin of an absolute http(s) URL: up to the first "/"
\* behind "scheme://"
RECURSIVE HostEnd(_, _)
HostEnd(url, i) ==
    IF i > Len(url) THEN Len(url)
    ELSE IF SubSeq(url, i, i) = "/" THEN i - 1
    ELSE HostEnd(url, i + 1)

Origin(pageUrl) ==
    IF StartsWith(pageUrl, "https://") THEN SubSeq(pageUrl, 1, HostEnd(pageUrl, 9))
    ELSE SubSeq(pageUrl, 1, HostEnd(pageUrl, 8))

\* resolveUrl(href, pageUrl); "" stands for null and for a missing attribute
resolveUrl(href, pageUrl) ==
    IF href = "" THEN ""
    ELSE LET h == Trim(href)
         IN  IF StartsWith(h, "http") THEN h
             ELSE IF StartsWith(h, "//") THEN "https:" \o h
             ELSE IF StartsWith(h, "/") THEN Origin(pageUrl) \o h
             ELSE ""

\* str.repeat(n)
RECURSIVE Repeat(_, _)
Repeat(str, n) ==
    IF n = 0 THEN ""
    ELSE IF n = 1 THEN str
    ELSE Repeat(str, n \div 2) \o Repeat(str, n - (n \div 2))

\* -------------------------------------------------------------- strategies
\* A draft carries the fields the merge step and the claims read: id, title,
\* sourceUrl and publishedAt.  A strategy's outcome is the list it returns,
\* or an exception that leaves the function.
Returned(articles) == [threw |-> FALSE, articles |-> articles]

\* an exception: articles is the local list at that moment, which the caller
\* never receives
Thrown(articles) == [threw |-> TRUE, articles |-> articles]

\* scrapeEspn, the filter: new Date(a.published || a.lastModified || 0).getTime() > cutoff
EspnDate(a) ==
    IF Truthy(a.published) THEN GetTime(a.published)
    ELSE IF Truthy(a.lastModified) THEN GetTime(a.lastModified)
    ELSE 0

EspnPasses(a, t) == NumGt(EspnDate(a), Cutoff(t))

\* scrapeEspn, the map
EspnDraft(a) ==
    [id          |-> urlToId(IF a.href # "" THEN a.href ELSE a.id),
     title       |-> cleanText(a.headline),
     sourceUrl   |-> a.href,
     publishedAt |-> a.published]

RECURSIVE EspnMap(_, _)
EspnMap(entries, t) ==
    IF entries = <<>> THEN <<>>
    ELSE (IF EspnPasses(Head(entries), t) THEN <<EspnDraft(Head(entries))>> ELSE <<>>)
         \o EspnMap(Tail(entries), t)

\* scrapeEspn(): resp.ok is FALSE when something inside the try block throws
\* (fetch rejects, a non-2xx status, a body that is not JSON, the enrichment
\* of the drafts); the catch block then returns []
scrapeEspn(resp, t) ==
    IF ~resp.ok THEN Returned(<<>>)
    ELSE Returned(EspnMap(resp.items, t))

\* scrapeHtmlListing, the callback of .each(): el is one item container
RECURSIVE HtmlEach(_, _, _, _, _)
HtmlEach(items, seen, articles, listUrl, t) ==
    IF items = <<>> THEN articles
    ELSE LET el    == Head(items)
             title == cleanText(el.title)
             url   == resolveUrl(el.href, listUrl)
             rest  == Tail(items)
         IN  IF title = "" \/ Len(title) < 5
                 THEN HtmlEach(rest, seen, articles, listUrl, t)
             ELSE IF url = "" \/ url \in seen
                 THEN HtmlEach(rest, seen, articles, listUrl, t)
             ELSE IF Truthy(el.date) /\ ~isRecent(el.date, t)
                 THEN HtmlEach(rest, seen \cup {url}, articles, listUrl, t)
             ELSE HtmlEach(rest, seen \cup {url},
                           Append(articles, [id          |-> urlToId(url),
                                             title       |-> title,
                                             sourceUrl   |-> url,
                                             publishedAt |-> el.date]),
                           listUrl, t)

\* scrapeHtmlListing(config): page.ok is FALSE when fetchPage returned null
scrapeHtmlListing(page, listUrl, t) ==
    IF ~page.ok THEN Returned(<<>>)
    ELSE Returned(HtmlEach(page.items, {}, <<>>, listUrl, t))

\* scrapeRss, the test that keeps an entry
RssKeeps(el, t) ==
    /\ cleanText(el.title) # ""
    /\ el.link # ""
    /\ ~(Truthy(el.pubDate) /\ GetTime(el.pubDate) # NaN
           /\ NumLt(GetTime(el.pubDate), Cutoff(t)))

\* new Date(pubDate).toISOString() throws a RangeError on an Invalid Date
ToISOStringThrows(p) == GetTime(p) = NaN

\* scrapeRss, the callback of .each(): the first exception ends the loop
RECURSIVE RssEach(_, _, _)
RssEach(items, articles, t) ==
    IF items = <<>> THEN Returned(articles)
    ELSE LET el == Head(items)
         IN  IF ~RssKeeps(el, t) THEN RssEach(Tail(items), articles, t)
             ELSE IF Truthy(el.pubDate) /\ ToISOStringThrows(el.pubDate)
                 THEN Thrown(articles)
             ELSE RssEach(Tail(items),
                          Append(articles, [id          |-> urlToId(el.link),
                                            title       |-> cleanText(el.title),
                                            sourceUrl   |-> el.link,
                                            publishedAt |-> el.pubDate]),
                          t)

\* scrapeRss(config): feed.ok is FALSE when fetchPage returned null
scrapeRss(feed, t) ==
    IF ~feed.ok THEN Returned(<<>>)
    ELSE RssEach(feed.items, <<>>, t)

\* ------------------------------------------------------------------- merge
\* byId.set(a.id, a): a Map keeps insertion order, and setting a key that is
\* already present replaces the value in place.
MapSetDup(byId, a) == Append(byId, a)

MapSetKeepsFirst(byId, a) ==
    IF \E i \in 1..Len(byId) : byId[i].id = a.id THEN byId ELSE Append(byId, a)

MapSet(byId, a) ==
    IF \E i \in 1..Len(byId) : byId[i].id = a.id
    THEN [i \in 1..Len(byId) |-> IF byId[i].id = a.id THEN a ELSE byId[i]]
    ELSE Append(byId, a)

\* the condition under which an existing record is carried over
KeepsExistingAlways(a, t) == TRUE

KeepsExistingIfRecent(a, t) == isRecent(a.publishedAt, t)

KeepsExisting(a, t) ==
    LET ts == IF Truthy(a.publishedAt) THEN GetTime(a.publishedAt) ELSE t
    IN  ~Truthy(a.publishedAt) \/ NumGt(ts, Cutoff(t))

\* for (const a of existingArticles) { ... byId.set(a.id, a) }
RECURSIVE EvictionLoop(_, _, _)
EvictionLoop(byId, existing, t) ==
    IF existing = <<>> THEN byId
    ELSE LET a == Head(existing)
         IN  EvictionLoop(IF KeepsExisting(a, t) THEN MapSet(byId, a) ELSE byId,
                          Tail(existing), t)

\* a test that lets a draft without a title in
AcceptsNewUntitled(a) == a.id # ""

\* the condition under which a new draft is inserted
AcceptsNew(a) == a.id # "" /\ a.title # ""

\* for (const a of allNew) { if (a.id && a.title) byId.set(a.id, a) }
RECURSIVE InsertLoop(_, _)
InsertLoop(byId, new) ==
    IF new = <<>> THEN byId
    ELSE LET a == Head(new)
         IN  InsertLoop(IF AcceptsNew(a) THEN MapSet(byId, a) ELSE byId, Tail(new))

\* new Date(a.publishedAt || 0) as a number
SortDate(a) == IF Truthy(a.publishedAt) THEN GetTime(a.publishedAt) ELSE 0

\* the comparator (a, b) => new Date(b.publishedAt || 0) - new Date(a.publishedAt || 0),
\* as Array.prototype.sort reads it: -1, 0 or 1, a NaN result counting as +0
Comparator(a, b) ==
    LET x == SortDate(b)
        y == SortDate(a)
    IN  IF x = NaN \/ y = NaN THEN 0
        ELSE IF x - y < 0 THEN -1
        ELSE IF x - y > 0 THEN 1
        ELSE 0

\* ECMAScript: a comparator is consistent on a set of values when "equal" is
\* transitive and "before" is transitive and compatible with "equal"
ConsistentOn(S) ==
    \A a, b, c \in S :
        /\ (Comparator(a, b) = 0 /\ Comparator(b, c) = 0) => Comparator(a, c) = 0
        /\ (Comparator(a, b) < 0 /\ Comparator(b, c) < 0) => Comparator(a, c) < 0
        /\ (Comparator(a, b) = 0 /\ Comparator(b, c) < 0) => Comparator(a, c) < 0
        /\ (Comparator(a, b) < 0 /\ Comparator(b, c) = 0) => Comparator(a, c) < 0

Range(s) == {s[i] : i \in 1..Len(s)}

\* insert a behind every element that does not sort after it (stable)
RECURSIVE InsertStable(_, _)
InsertStable(sorted, a) ==
    IF sorted = <<>> THEN <<a>>
    ELSE IF Comparator(Head(sorted), a) <= 0
         THEN <<Head(sorted)>> \o InsertStable(Tail(sorted), a)
         ELSE <<a>> \o sorted

RECURSIVE StableSort(_, _)
StableSort(sorted, rest) ==
    IF rest = <<>> THEN sorted
    ELSE StableSort(InsertStable(sorted, Head(rest)), Tail(rest))

Orderings(s) ==
    LET n == Len(s)
        P == {p \in [1..n -> 1..n] : \A i, j \in 1..n : i # j => p[i] # p[j]}
    IN  {[i \in 1..n |-> s[p[i]]] : p \in P}

\* [...byId.values()].sort(comparator): the stable order when the comparator
\* is consistent on the values; otherwise the order is implementation-defined
SortOutcomes(values) ==
    IF ConsistentOn(Range(values))
    THEN {StableSort(<<>>, values)}
    ELSE Orderings(values)

\* the merge section of run(): every article list it can write
MergeOutcomes(existing, new, t) ==
    SortOutcomes(InsertLoop(EvictionLoop(<<>>, existing, t), new))

\* enrichWithContent(articles, bodySelector): the body text it writes into
\* a draft is not among the modelled fields, so a call that returns hands
\* back the same drafts in the same order; ok is FALSE when it throws
enrichWithContent(articles, ok) ==
    IF ok THEN Returned(articles) ELSE Thrown(articles)

\* the configured sources: the three kinds of entry of SITE_CONFIGS (a feed,
\* a listing whose links are followed, a listing that is only listed)
SITE_CONFIGS ==
    << [source |-> "Chicago Bears Official", type |-> "rss", followLinks |-> FALSE,
        listUrl |-> "https://s/rss"],
       [source |-> "AP News", type |-> "html", followLinks |-> TRUE,
        listUrl |-> "https://s/hub"],
       [source |-> "Chicago Tribune", type |-> "html", followLinks |-> FALSE,
        listUrl |-> "https://s/sports"] >>

\* the body of the for loop of run() for one config, up to the catch:
\* fetched is the payload fetchPage gave, enrichOk whether enrichment returns
ScrapeSite(config, fetched, enrichOk, t) ==
    IF config.type = "rss" THEN scrapeRss(fetched, t)
    ELSE LET listed == scrapeHtmlListing(fetched, config.listUrl, t)
         IN  IF listed.threw THEN listed
             ELSE IF config.followLinks /\ Len(listed.articles) > 0
                 THEN enrichWithContent(listed.articles, enrichOk)
             ELSE listed

\* what one pass of the loop pushes onto allNew: the catch block pushes nothing
PushedPartial(outcome) == outcome.articles

Pushed(outcome) == IF outcome.threw THEN <<>> ELSE outcome.articles

\* a loop that is left for the merge section after its first pass
AfterSiteFirst(i) == "merge"

\* where run() stands after config number i was handled, whatever happened
AfterSite(i) == IF i = Len(SITE_CONFIGS) THEN "merge" ELSE "sites"

\* --------------------------------------------------------------- the state
VARIABLES
    now,               \* Date.now(), ms
    file,              \* the articles list of public/data/articles.json
    pc,                \* where run() (or the strategy under test) stands
    existingArticles,  \* run(): the list loaded from the file
    allNew,            \* run(): the drafts collected from the sources
    idx,               \* run(): the number of the config being handled
    outcomes,          \* per source of this run, what its strategy ended in
    firstOut,          \* the list written by the first of two runs
    rerun,             \* TRUE once run() was started again on its own output
    payload,           \* the payload handed to the strategy under test
    result,            \* what that strategy ended in
    raw,               \* what is on disk at OUTPUT_PATH when run() starts
    raised,            \* the error run() was left with, "none" if it returned
    fpc,               \* fetchPage: where the call stands
    timer,             \* fetchPage: the timeout set on entry
    elapsed,           \* ms since fetchPage was entered
    server,            \* how the remote end behaves during the call
    returned,          \* what the caller of fetchPage received
    dataset,           \* page: what fetch('./data/articles.json') gives
    allArticles,       \* page: the variable allArticles
    keywords,          \* page: the variable keywords
    selectedArticles,  \* page: the variable selectedArticles
    rendered,          \* page: the ids of the checkboxes in articlesList
    message,           \* page: messageDiv and its pending hide timer
    sectionShown,      \* page: articlesSection is displayed
    generateDisabled,  \* page: generateBtn.disabled
    generating,        \* page: calls of handleGenerate waiting for downloadDocx
    uncaught,          \* page: the exception no handler caught, if any
    lastEvent,         \* page: the handler that ran last
    requests,          \* run(): the network requests issued so far, in order
    batch              \* enrichWithContent: the URLs of the drafts still to handle

loadVars == <<raw, raised>>
fetchVars == <<fpc, timer, elapsed, server, returned>>

pageVars == <<dataset, allArticles, keywords, selectedArticles, rendered, message,
              sectionShown, generateDisabled, generating, uncaught, lastEvent>>

netVars == <<requests, batch>>

\* the variables that only the specifications of single steps use
sideVars == <<loadVars, fetchVars, pageVars, netVars>>

vars == <<now, file, pc, existingArticles, allNew, idx, outcomes, firstOut, rerun,
          payload, result, sideVars>>

runVars == <<existingArticles, allNew, idx, outcomes>>
pairVars == <<firstOut, rerun>>
strategyVars == <<payload, result>>

NoPayload == [kind |-> "none", ok |-> FALSE, items |-> <<>>]

\* a dataset file as it is read: shape says what JSON.parse makes of it and
\* articles holds the elements when raw.articles is a list
Stored(articles) == [shape |-> "list", articles |-> articles]

\* the variables of the load step where the load step is not under study
LoadIdle == raw = Stored(<<>>) /\ raised = "none"

\* the remote end: when the response headers (or the network error) arrive,
\* ms after the request, Never if they do not; what arrives; when the body has
\* been read, ms after the headers, Never if it stalls; how the read ends
Never == -1

Remote(respondsAt, outcome, bodyAt, bodyOutcome) ==
    [respondsAt |-> respondsAt, outcome |-> outcome,
     bodyAt |-> bodyAt, bodyOutcome |-> bodyOutcome]

\* the variables of fetchPage where no call is under study
FetchIdle ==
    /\ fpc = "idle" /\ timer = "unset" /\ elapsed = 0 /\ returned = "none"
    /\ server = Remote(0, "status200", 0, "text")

\* the value of allArticles: an array, undefined, or an object without
\* length and filter
ArrayOf(items) == [kind |-> "array", items |-> items]
Undefined == [kind |-> "undefined", items |-> <<>>]
PlainObject == [kind |-> "object", items |-> <<>>]

NoMessage == [text |-> "", type |-> "info", shown |-> FALSE, hidePending |-> FALSE]

\* the page as the script finds it: let allArticles = [], keywords = ['Bears']
PageLoaded ==
    /\ allArticles = ArrayOf(<<>>)
    /\ keywords = <<"Bears">>
    /\ selectedArticles = {}
    /\ rendered = <<>>
    /\ message = NoMessage
    /\ sectionShown = FALSE
    /\ generating = 0
    /\ uncaught = "none"
    /\ lastEvent = "none"

\* the variables of the page where the page is not under study
PageIdle ==
    /\ PageLoaded
    /\ dataset = [kind |-> "fetchError", items |-> <<>>]
    /\ generateDisabled = TRUE

\* the variables of the request log where requests are not under study
NetIdle == requests = <<>> /\ batch = <<>>

SideIdle == LoadIdle /\ FetchIdle /\ PageIdle /\ NetIdle

\* -------------------------------------------------------- input enumeration
Urls == {"https://s/x", "https://s/w"}

SeqsUpTo(S, n) == UNION {[1..k -> S] : k \in 0..n}

\* publishedAt values of stored records at clock reading t: none,
\* unparseable, 30 hours old (outside the window), one hour old (inside)
DateChoices(t) == {NoDate, BadDate, t - Hours(30), t - Hours(1)}

\* publishedAt values of collected drafts when the merge step reads the clock
\* at t: none, unparseable, inside the window, and a date that was inside it
\* when the strategy looked and has left it by 1 ms since
DraftDates(t) == {NoDate, BadDate, Cutoff(t) - 1, t - Hours(1)}

\* records a prior dataset file may hold
ExistingDomain(t) ==
    {[id |-> urlToId(u), title |-> "Old title", sourceUrl |-> u, publishedAt |-> d] :
        u \in Urls, d \in DateChoices(t)}

\* drafts the strategies may hand to the merge step
DraftDomain(t) ==
    {[id |-> urlToId(u), title |-> ti, sourceUrl |-> u, publishedAt |-> d] :
        u \in Urls, ti \in {"", "New title"}, d \in DraftDates(t)}

\* item containers of a listing page: title text, href, date text/attribute
HtmlItems(t) ==
    [title : {"", "Hi", "Bears  win"},
     href  : {"", "https://s/x", "/x", "/w", "javascript:void(0)"},
     date  : {NoDate, BadDate, t - Hours(30), Cutoff(t), t - Hours(1)}]

\* entries of a feed
RssItems(t) ==
    [title   : {"", "Feed item"},
     link    : {""} \cup Urls,
     pubDate : {NoDate, BadDate, t - Hours(30), Cutoff(t), t - Hours(1)}]

\* entries of the API response
EspnItems(t) ==
    [href         : {"", "https://s/x"},
     id           : {"4401"},
     headline     : {"", "Bears win"},
     published    : {NoDate, BadDate, t - Hours(30), Cutoff(t), t - Hours(1)},
     lastModified : {NoDate, t - Hours(30), t - Hours(1)}]

Fetched(kind, items) == [kind |-> kind, ok |-> TRUE, items |-> items]
NotFetched(kind) == [kind |-> kind, ok |-> FALSE, items |-> <<>>]

\* ------------------------------------------------ the strategies, in isolation
\* one strategy is about to be applied to a payload that was fetched (or not)
InitStrategies ==
    /\ now = Hours(StartHour)
    /\ payload \in
         {NotFetched(k) : k \in {"espn", "html", "rss"}}
         \cup {Fetched("espn", i) : i \in SeqsUpTo(EspnItems(now), MaxItems)}
         \cup {Fetched("html", i) : i \in SeqsUpTo(HtmlItems(now), MaxItems)}
         \cup {Fetched("rss", i) : i \in SeqsUpTo(RssItems(now), MaxItems)}
    /\ result = Returned(<<>>)
    /\ pc = "fetched"
    /\ file = <<>>
    /\ existingArticles = <<>> /\ allNew = <<>> /\ idx = 0 /\ outcomes = <<>>
    /\ firstOut = <<>> /\ rerun = FALSE
    /\ SideIdle

ApplyEspn ==
    /\ pc = "fetched" /\ payload.kind = "espn"
    /\ result' = scrapeEspn(payload, now)
    /\ pc' = "scraped"
    /\ UNCHANGED <<now, file, runVars, pairVars, payload, sideVars>>

ApplyHtmlListing ==
    /\ pc = "fetched" /\ payload.kind = "html"
    /\ result' = scrapeHtmlListing(payload, "https://s/list", now)
    /\ pc' = "scraped"
    /\ UNCHANGED <<now, file, runVars, pairVars, payload, sideVars>>

ApplyRss ==
    /\ pc = "fetched" /\ payload.kind = "rss"
    /\ result' = scrapeRss(payload, now)
    /\ pc' = "scraped"
    /\ UNCHANGED <<now, file, runVars, pairVars, payload, sideVars>>

NextStrategies == ApplyEspn \/ ApplyHtmlListing \/ ApplyRss

SpecStrategies == InitStrategies /\ [][NextStrategies]_vars

\* ------------------------------------------------ the merge step, in isolation
\* run() stands just before the merge section with any prior dataset and any
\* list of collected drafts
InitMerge ==
    /\ now = Hours(StartHour)
    /\ existingArticles \in SeqsUpTo(ExistingDomain(now), MaxExisting)
    /\ allNew \in SeqsUpTo(DraftDomain(now), MaxNew)
    /\ file = existingArticles
    /\ pc = "merge"
    /\ idx = 0 /\ outcomes = <<>>
    /\ firstOut = <<>> /\ rerun = FALSE
    /\ payload = NoPayload /\ result = Returned(<<>>)
    /\ SideIdle

\* the merge section of run() up to writeFileSync, which either writes the
\* sorted list or throws and leaves the file as it was
MergeAndWrite ==
    /\ pc = "merge"
    /\ \/ /\ \E articles \in MergeOutcomes(existingArticles, allNew, now) :
                file' = articles
          /\ pc' = "done"
       \/ /\ pc' = "fatal"
          /\ UNCHANGED file
    /\ UNCHANGED <<now, runVars, pairVars, strategyVars, sideVars>>

\* run() is started again with the clock held fixed and the sources
\* returning the same drafts: it loads what the first run wrote
RunAgainSameDrafts ==
    /\ pc = "done"
    /\ ~rerun
    /\ existingArticles' = file
    /\ firstOut' = file
    /\ rerun' = TRUE
    /\ pc' = "merge"
    /\ UNCHANGED <<now, file, allNew, idx, outcomes, strategyVars, sideVars>>

NextMerge == MergeAndWrite \/ RunAgainSameDrafts

SpecMerge == InitMerge /\ [][NextMerge]_vars

\* ------------------------------------------------------- run(), day after day
\* what the API serves during a run at clock reading t: nothing usable, one
\* article dated an hour ago, one with lastModified only, or the same link
\* twice, the second time without a headline
EspnResponses(t) ==
    {NotFetched("espn")} \cup
    {Fetched("espn", <<[href |-> "https://s/x", id |-> "4401", headline |-> "Bears win",
                        published |-> d[1], lastModified |-> d[2]]>>) :
        d \in {<<t - Hours(1), NoDate>>, <<NoDate, t - Hours(1)>>}} \cup
    {Fetched("espn", <<[href |-> "https://s/x", id |-> "4401", headline |-> "Bears win",
                        published |-> t - Hours(1), lastModified |-> NoDate],
                       [href |-> "https://s/x", id |-> "4401", headline |-> "",
                        published |-> NoDate, lastModified |-> t - Hours(1)]>>)}

\* what a feed serves: nothing, or one entry whose date parses or does not
RunFeeds(t) ==
    {NotFetched("rss")} \cup
    {Fetched("rss", <<[title |-> "Feed item", link |-> "https://s/w", pubDate |-> d]>>) :
        d \in {t - Hours(1), BadDate}}

\* what a listing page serves: nothing, or one item container
RunPages(t) ==
    {NotFetched("html")} \cup
    {Fetched("html", <<[title |-> "Bears  win", href |-> h[1], date |-> h[2]]>>) :
        h \in {<<"/x", BadDate>>, <<"/w", NoDate>>}}

SitePayloads(config, t) == IF config.type = "rss" THEN RunFeeds(t) ELSE RunPages(t)

LastDay == Hours(StartHour + 24 * MaxDays)

Init ==
    /\ now = Hours(StartHour)
    /\ file \in SeqsUpTo(ExistingDomain(now), 1)
    /\ pc = "idle"
    /\ existingArticles = <<>> /\ allNew = <<>> /\ idx = 0 /\ outcomes = <<>>
    /\ firstOut = <<>> /\ rerun = FALSE
    /\ payload = NoPayload /\ result = Returned(<<>>)
    /\ SideIdle

\* run(), lines 696-711: the prior dataset is loaded, allNew is empty
StartRun ==
    /\ pc = "idle"
    /\ existingArticles' = file
    /\ allNew' = <<>>
    /\ outcomes' = <<>>
    /\ idx' = 0
    /\ pc' = "espn"
    /\ UNCHANGED <<now, file, pairVars, strategyVars, sideVars>>

\* allNew.push(...await scrapeEspn())
RunEspn ==
    /\ pc = "espn"
    /\ \E resp \in EspnResponses(now) :
          LET outcome == scrapeEspn(resp, now)
          IN  /\ allNew' = allNew \o outcome.articles
              /\ outcomes' = Append(outcomes, outcome)
    /\ idx' = 1
    /\ pc' = "sites"
    /\ UNCHANGED <<now, file, existingArticles, pairVars, strategyVars, sideVars>>

\* one pass of for (const config of SITE_CONFIGS) { try { ... } catch { ... } }
RunSite ==
    /\ pc = "sites"
    /\ \E fetched \in SitePayloads(SITE_CONFIGS[idx], now), enrichOk \in BOOLEAN :
          LET outcome == ScrapeSite(SITE_CONFIGS[idx], fetched, enrichOk, now)
          IN  /\ allNew' = allNew \o Pushed(outcome)
              /\ outcomes' = Append(outcomes, outcome)
    /\ idx' = idx + 1
    /\ pc' = AfterSite(idx)
    /\ UNCHANGED <<now, file, existingArticles, pairVars, strategyVars, sideVars>>

\* the process has ended; the schedule starts the next one a day later
NextDay ==
    /\ pc \in {"done", "fatal"}
    /\ now < LastDay
    /\ now' = now + Hours(24)
    /\ pc' = "idle"
    /\ existingArticles' = <<>> /\ allNew' = <<>> /\ idx' = 0 /\ outcomes' = <<>>
    /\ UNCHANGED <<file, pairVars, strategyVars, sideVars>>

\* the oldest date a stored record is given
OldestDate == Hours(StartHour - 30)

\* a stored record as it stands to the clock one day later, the clock being
\* held: its date moves back by a day (run() reads a stored date only in
\* comparison with Date.now() and with other stored dates); a date that is
\* outside the window either way is held at OldestDate
DayOlder(a) ==
    IF a.publishedAt = NoDate \/ a.publishedAt = BadDate THEN a
    ELSE [a EXCEPT !.publishedAt =
              IF a.publishedAt - Hours(24) < OldestDate THEN OldestDate
              ELSE a.publishedAt - Hours(24)]

\* the schedule goes on after LastDay: each further day is the same clock
\* reading with every stored date a day older
LaterDay ==
    /\ pc \in {"done", "fatal"}
    /\ now = LastDay
    /\ file' = [i \in 1..Len(file) |-> DayOlder(file[i])]
    /\ pc' = "idle"
    /\ existingArticles' = <<>> /\ allNew' = <<>> /\ idx' = 0 /\ outcomes' = <<>>
    /\ UNCHANGED <<now, pairVars, strategyVars, sideVars>>

Next == StartRun \/ RunEspn \/ RunSite \/ MergeAndWrite \/ NextDay \/ LaterDay

Spec == Init /\ [][Next]_vars

\* ------------------------------------------- run() as one step, day after day
\* every allNew the source loop of run() can end with at clock reading t
RECURSIVE CollectFrom(_, _, _)
CollectFrom(i, collected, t) ==
    IF i > Len(SITE_CONFIGS) THEN {collected}
    ELSE UNION { CollectFrom(i + 1,
                             collected \o Pushed(ScrapeSite(SITE_CONFIGS[i], fetched, enrichOk, t)),
                             t) :
                    fetched \in SitePayloads(SITE_CONFIGS[i], t), enrichOk \in BOOLEAN }

Collected(t) ==
    UNION { CollectFrom(1, scrapeEspn(resp, t).articles, t) : resp \in EspnResponses(t) }

\* the clock readings at which the daily runs start
RunTimes == {Hours(StartHour + 24 * d) : d \in 0..MaxDays}

CollectedAt == [t \in RunTimes |-> Collected(t)]

\* one whole run(): load, collect, merge, write (or die at the write)
DailyRun ==
    /\ pc = "idle"
    /\ existingArticles' = file
    /\ \E collected \in CollectedAt[now] :
          /\ allNew' = collected
          /\ \/ /\ \E articles \in MergeOutcomes(file, collected, now) : file' = articles
                /\ pc' = "done"
             \/ /\ pc' = "fatal"
                /\ UNCHANGED file
    /\ UNCHANGED <<now, idx, outcomes, pairVars, strategyVars, sideVars>>

NextDaily == DailyRun \/ NextDay \/ LaterDay

\* the workflow is scheduled daily and a started run goes on to its end
FairDaily == Init /\ [][NextDaily]_vars /\ WF_vars(NextDaily)

\* ------------------------------------------------------ isRecent, in isolation
\* dateStr values: none, unparseable, whole hours before and after the clock
\* reading, and the ms around the far edge of the window
RecentInputs(t) ==
    {NoDate, BadDate}
    \cup {t - Hours(h) : h \in (0 - MaxAgeHours)..MaxAgeHours}
    \cup {Cutoff(t) + k : k \in (0 - MaxSkewMs)..MaxSkewMs}

InitRecent ==
    /\ now = Hours(StartHour)
    /\ payload \in {[kind |-> "dateStr", ok |-> TRUE, items |-> <<p>>] :
                       p \in RecentInputs(now)}
    /\ result = [threw |-> FALSE, articles |-> <<>>, value |-> FALSE]
    /\ pc = "called"
    /\ file = <<>>
    /\ existingArticles = <<>> /\ allNew = <<>> /\ idx = 0 /\ outcomes = <<>>
    /\ firstOut = <<>> /\ rerun = FALSE
    /\ SideIdle

ApplyIsRecent ==
    /\ pc = "called" /\ payload.kind = "dateStr"
    /\ result' = [result EXCEPT !.value = isRecent(payload.items[1], now)]
    /\ pc' = "returned"
    /\ UNCHANGED <<now, file, runVars, pairVars, payload, sideVars>>

NextRecent == ApplyIsRecent

SpecRecent == InitRecent /\ [][NextRecent]_vars

Min(a, b) == IF a < b THEN a ELSE b

\* ------------------------------------------- scrapeRss, excerpt and content
\* what .replace(/<[^>]*>/g, '') leaves of the character at i: nothing when a
\* "<" at or before i is followed by its first ">" at or behind i
StripChar(str, i) ==
    IF /\ \E a \in 1..i :
              /\ CharAt(str, a) = "<"
              /\ \A j \in a..(i - 1) : CharAt(str, j) # ">"
              /\ a = i => CharAt(str, i) # ">"
          /\ \E b \in i..Len(str) : CharAt(str, b) = ">" /\ (b = i => CharAt(str, i) = ">")
    THEN ""
    ELSE CharAt(str, i)

\* str.replace(/<[^>]*>/g, '')
StripTags(str) == Rewrite(StripChar, str, 1, Len(str))

\* null as the value of excerpt
Null == "(null)"

\* the length excerpts are cut to
EXCERPT_LENGTH == 400

\* excerptText: cleanText(descriptionRaw.replace(...)).slice(0, 400) || null
RssExcerpt(descriptionRaw) ==
    LET text == cleanText(StripTags(descriptionRaw))
        cut  == SubSeq(text, 1, Min(Len(text), EXCERPT_LENGTH))
    IN  IF cut = "" THEN Null ELSE cut

\* content: fullText || '' where fullText is the cleaned content:encoded
\* when that is non-empty and excerptText otherwise
RssContentFromDescription(descriptionRaw, contentEncodedRaw) ==
    cleanText(StripTags(descriptionRaw))

RssContent(descriptionRaw, contentEncodedRaw) ==
    LET fullText == IF contentEncodedRaw # ""
                    THEN cleanText(StripTags(contentEncodedRaw))
                    ELSE RssExcerpt(descriptionRaw)
    IN  IF fullText = "" \/ fullText = Null THEN "" ELSE fullText

\* text of description / summary elements
Descriptions ==
    {"", "Short summary", "<p>Short  summary</p>", " <b></b> ", "a < b",
     "Lead <a href=\"https://s/x\">more</a>", "<p>" \o Repeat("ab ", MaxRepeat) \o "</p>",
     Repeat("ab ", MaxRepeat)}

\* text of content:encoded elements
ContentsEncoded ==
    {"", " ", "<p></p>", "Full body", "<p>Full  body\n<em>text</em></p>",
     "Short summary", "Full <b>body", "<div>" \o Repeat("cd ", MaxRepeat) \o "</div>"}

InitFeedBody ==
    /\ now = Hours(StartHour)
    /\ payload \in {[kind |-> "entry", ok |-> TRUE,
                      items |-> <<[description |-> d, contentEncoded |-> c]>>] :
                       d \in Descriptions, c \in ContentsEncoded}
    /\ result = [threw |-> FALSE, articles |-> <<>>]
    /\ pc = "called"
    /\ file = <<>>
    /\ existingArticles = <<>> /\ allNew = <<>> /\ idx = 0 /\ outcomes = <<>>
    /\ firstOut = <<>> /\ rerun = FALSE
    /\ SideIdle

\* the excerpt and content fields of the draft pushed for the entry
ApplyFeedBody ==
    /\ pc = "called" /\ payload.kind = "entry"
    /\ LET el == payload.items[1]
       IN  result' = [threw |-> FALSE,
                      articles |-> <<[excerpt |-> RssExcerpt(el.description),
                                      content |-> RssContent(el.description,
                                                             el.contentEncoded)]>>]
    /\ pc' = "returned"
    /\ UNCHANGED <<now, file, runVars, pairVars, payload, sideVars>>

NextFeedBody == ApplyFeedBody

SpecFeedBody == InitFeedBody /\ [][NextFeedBody]_vars

\* ------------------------------------------- enrichWithContent, draft by draft
\* what fetchPage and the body selector give for a draft's page:
\*   "null"    fetchPage returned null
\*   "noBody"  no element matches bodySelector
\*   "short"   the body text has a few characters
\*   "edge"    the body text has 200 characters
\*   "long"    the body text has 201 characters
PageKinds == {"null", "noBody", "short", "edge", "long"}

\* cleanText($body.text()) of the page behind url, for the kinds of page that
\* have a body
Filler == Repeat(".", 201)

BodyTextOf(url, page) ==
    LET text == "Body of " \o url
    IN  CASE page = "short" -> text
          [] page = "edge"  -> text \o SubSeq(Filler, 1, 200 - Len(text))
          [] OTHER          -> text \o SubSeq(Filler, 1, 201 - Len(text))

BodyText(url) == BodyTextOf(url, "long")

\* if (text.length > 200)
MIN_BODY_LENGTH == 200

\* articles.slice(0, MAX_FOLLOW_PER_SITE)
LimitedAll(articles) == articles

Limited(articles) == SubSeq(articles, 1, Min(Len(articles), MAX_FOLLOW_PER_SITE))

\* articles.slice(MAX_FOLLOW_PER_SITE)
Beyond(articles) == SubSeq(articles, MAX_FOLLOW_PER_SITE + 1, Len(articles))

\* the body of the first loop for one draft, behind the test on sourceUrl
\* a test that lets a text of exactly 200 characters in
EnrichOneFromThreshold(article, page) ==
    IF page \in {"null", "noBody"} THEN article
    ELSE LET text == BodyTextOf(article.sourceUrl, page)
         IN  IF Len(text) >= MIN_BODY_LENGTH THEN [article EXCEPT !.content = text]
             ELSE article

EnrichOne(article, page) ==
    IF page \in {"null", "noBody"} THEN article
    ELSE LET text == BodyTextOf(article.sourceUrl, page)
         IN  IF Len(text) > MIN_BODY_LENGTH THEN [article EXCEPT !.content = text]
             ELSE article

\* the first loop of enrichWithContent: results and the URLs fetched, in order
RECURSIVE EnrichLoopStopsAtNull(_, _, _, _)
EnrichLoopStopsAtNull(limited, pages, results, fetched) ==
    IF limited = <<>> THEN [results |-> results, fetched |-> fetched]
    ELSE LET article == Head(limited)
         IN  IF article.sourceUrl = ""
             THEN EnrichLoopStopsAtNull(Tail(limited), Tail(pages),
                                        Append(results, article), fetched)
             ELSE IF Head(pages) = "null"
             THEN [results |-> results \o limited,
                   fetched |-> Append(fetched, article.sourceUrl)]
             ELSE EnrichLoopStopsAtNull(Tail(limited), Tail(pages),
                                        Append(results, EnrichOne(article, Head(pages))),
                                        Append(fetched, article.sourceUrl))

RECURSIVE EnrichLoop(_, _, _, _)
EnrichLoop(limited, pages, results, fetched) ==
    IF limited = <<>> THEN [results |-> results, fetched |-> fetched]
    ELSE LET article == Head(limited)
         IN  IF article.sourceUrl = ""
             THEN EnrichLoop(Tail(limited), Tail(pages), Append(results, article), fetched)
             ELSE EnrichLoop(Tail(limited), Tail(pages),
                             Append(results, EnrichOne(article, Head(pages))),
                             Append(fetched, article.sourceUrl))

\* enrichWithContent(articles, bodySelector), pages[i] being what the page of
\* articles[i] gives when it is fetched
enrichDrafts(articles, pages) ==
    LET loop == EnrichLoop(Limited(articles), pages, <<>>, <<>>)
    IN  [threw |-> FALSE,
         articles |-> loop.results \o Beyond(articles),
         fetched |-> loop.fetched]

\* draft number i as a strategy hands it to the enricher
EnrichDraft(i, hasUrl) ==
    [id          |-> urlToId("https://s/a" \o ToString(i)),
     title       |-> "Bears win",
     sourceUrl   |-> IF hasUrl THEN "https://s/a" \o ToString(i) ELSE "",
     publishedAt |-> NoDate,
     content     |-> "Excerpt " \o ToString(i)]

\* the batches the enricher is given: n drafts whose pages are long, but for
\* up to two positions where the page is of any kind or the draft has no URL
KindAt(i, j1, k1, j2, k2) == IF i = j1 THEN k1 ELSE IF i = j2 THEN k2 ELSE "long"

EnrichInputs ==
    {[kind  |-> "drafts", ok |-> TRUE,
      items |-> [i \in 1..n |-> EnrichDraft(i, KindAt(i, j1, k1, j2, k2) # "noUrl")],
      pages |-> [i \in 1..n |-> IF KindAt(i, j1, k1, j2, k2) = "noUrl" THEN "long"
                                 ELSE KindAt(i, j1, k1, j2, k2)]] :
        n \in 0..MaxDrafts, j1 \in 1..MaxDrafts, j2 \in 1..MaxDrafts,
        k1 \in PageKinds \cup {"noUrl"}, k2 \in PageKinds \cup {"noUrl"}}

InitEnrich ==
    /\ now = Hours(StartHour)
    /\ payload \in EnrichInputs
    /\ result = [threw |-> FALSE, articles |-> <<>>, fetched |-> <<>>]
    /\ pc = "called"
    /\ file = <<>>
    /\ existingArticles = <<>> /\ allNew = <<>> /\ idx = 0 /\ outcomes = <<>>
    /\ firstOut = <<>> /\ rerun = FALSE
    /\ SideIdle

ApplyEnrich ==
    /\ pc = "called" /\ payload.kind = "drafts"
    /\ result' = enrichDrafts(payload.items, payload.pages)
    /\ pc' = "returned"
    /\ UNCHANGED <<now, file, runVars, pairVars, payload, sideVars>>

NextEnrich == ApplyEnrich

SpecEnrich == InitEnrich /\ [][NextEnrich]_vars

\* --------------------------------------------------------------- fetchPage
\* the default of the parameter timeoutMs
timeoutMs == 15000

\* the step of the clock: a third of the timeout
TickMs == timeoutMs \div 3

\* return await resp.text() inside the try block: a rejected read is caught
\* and fetchPage returns null
ReadOutcomeUnawaited(bodyOutcome) ==
    IF bodyOutcome = "text" THEN "text" ELSE "exception"

ReadOutcome(bodyOutcome) == IF bodyOutcome = "text" THEN "text" ELSE "null"

\* clearTimeout(timer) right behind await fetch(...)
TimerAfterHeaders(t) == "cleared"

Delays == {k * TickMs : k \in 0..(MaxTicks - 2)}

Remotes ==
    {Remote(r, o, b, bo) :
        r \in Delays \cup {Never}, o \in {"status200", "status404", "networkError"},
        b \in {0, TickMs, 2 * TickMs, Never}, bo \in {"text", "readError"}}

InitFetch ==
    /\ now = Hours(StartHour)
    /\ server \in Remotes
    /\ fpc = "idle" /\ timer = "unset" /\ elapsed = 0 /\ returned = "none"
    /\ file = <<>>
    /\ pc = "fetch"
    /\ existingArticles = <<>> /\ allNew = <<>> /\ idx = 0 /\ outcomes = <<>>
    /\ firstOut = <<>> /\ rerun = FALSE
    /\ payload = NoPayload /\ result = Returned(<<>>)
    /\ LoadIdle /\ PageIdle /\ NetIdle

fetchFrame == <<now, file, pc, runVars, pairVars, strategyVars, loadVars, pageVars,
               netVars>>

\* fetchPage is entered: the timer is set and the request goes out
CallFetchPage ==
    /\ fpc = "idle"
    /\ timer' = "armed"
    /\ fpc' = "fetching"
    /\ UNCHANGED <<elapsed, server, returned, fetchFrame>>

\* await fetch(...) resolves with a response: the timer is cleared; a
\* response that is not ok returns null, another one is read
FetchResolves ==
    /\ fpc = "fetching"
    /\ server.respondsAt = elapsed
    /\ server.outcome \in {"status200", "status404"}
    /\ timer' = TimerAfterHeaders(timer)
    /\ IF server.outcome = "status200"
       THEN fpc' = "reading" /\ UNCHANGED returned
       ELSE fpc' = "returned" /\ returned' = "null"
    /\ UNCHANGED <<elapsed, server, fetchFrame>>

\* await fetch(...) rejects with a network error: the catch block clears the
\* timer and returns null
FetchRejects ==
    /\ fpc = "fetching"
    /\ server.respondsAt = elapsed
    /\ server.outcome = "networkError"
    /\ timer' = "cleared"
    /\ fpc' = "returned" /\ returned' = "null"
    /\ UNCHANGED <<elapsed, server, fetchFrame>>

\* the timer fires: controller.abort() rejects whatever awaits the signal
\* (the request, or the read of the body) and the catch block returns null
TimerFires ==
    /\ timer = "armed"
    /\ elapsed = timeoutMs
    /\ timer' = "fired"
    /\ IF fpc \in {"fetching", "reading"}
       THEN fpc' = "returned" /\ returned' = "null"
       ELSE UNCHANGED <<fpc, returned>>
    /\ UNCHANGED <<elapsed, server, fetchFrame>>

\* await resp.text() settles
BodyRead ==
    /\ fpc = "reading"
    /\ server.bodyAt # Never
    /\ elapsed = server.respondsAt + server.bodyAt
    /\ returned' = ReadOutcome(server.bodyOutcome)
    /\ fpc' = "returned"
    /\ timer' = IF server.bodyOutcome = "text" THEN timer ELSE "cleared"
    /\ UNCHANGED <<elapsed, server, fetchFrame>>

\* something is due at this clock reading
Due ==
    \/ timer = "armed" /\ elapsed = timeoutMs
    \/ fpc = "fetching" /\ server.respondsAt = elapsed
    \/ fpc = "reading" /\ server.bodyAt # Never
          /\ elapsed = server.respondsAt + server.bodyAt

\* time passes while the call is pending
Tick ==
    /\ fpc \in {"fetching", "reading"}
    /\ ~Due
    /\ elapsed < MaxTicks * TickMs
    /\ elapsed' = elapsed + TickMs
    /\ UNCHANGED <<fpc, timer, server, returned, fetchFrame>>

NextFetch ==
    CallFetchPage \/ FetchResolves \/ FetchRejects \/ TimerFires \/ BodyRead \/ Tick

SpecFetch == InitFetch /\ [][NextFetch]_vars

\* timers fire and settled promises are handled: the event loop goes on
FairFetch == SpecFetch /\ WF_vars(NextFetch)

\* ------------------------------------------ run() and the API endpoint
\* how the API endpoint may behave: it answers, it never answers, it sends
\* headers and then stalls
EspnRemotes ==
    {Remote(0, "status200", 0, "text"),
     Remote(Never, "status200", 0, "text"),
     Remote(0, "status200", Never, "text")}

InitRun ==
    /\ now = Hours(StartHour)
    /\ file \in SeqsUpTo(ExistingDomain(now), 1)
    /\ pc = "idle"
    /\ existingArticles = <<>> /\ allNew = <<>> /\ idx = 0 /\ outcomes = <<>>
    /\ firstOut = <<>> /\ rerun = FALSE
    /\ payload = NoPayload /\ result = Returned(<<>>)
    /\ LoadIdle /\ PageIdle /\ NetIdle
    /\ fpc = "idle" /\ timer = "unset" /\ elapsed = 0 /\ returned = "none"
    /\ server \in EspnRemotes

\* scrapeEspn awaits fetch(url, { headers }) and resp.json() with no signal
\* and no timer: it goes on only when both promises settle
EspnSettles ==
    /\ server.respondsAt # Never
    /\ server.bodyAt # Never
    /\ RunEspn

NextRun == StartRun \/ EspnSettles \/ RunSite \/ MergeAndWrite

\* one run() against the endpoint; settled promises are handled
FairRun == InitRun /\ [][NextRun]_vars /\ WF_vars(NextRun)

\* ------------------------------------------------------------ the page
pageRest == <<now, file, runVars, pairVars, strategyVars, loadVars, fetchVars, netVars>>
pageFrame == <<pc, pageRest>>

UpperCase == "ABCDEFGHIJKLMNOPQRSTUVWXYZ"
LowerCase == "abcdefghijklmnopqrstuvwxyz"

LowerChar(str, i) ==
    IF \E k \in 1..Len(UpperCase) : CharAt(UpperCase, k) = CharAt(str, i)
    THEN CharAt(LowerCase, CHOOSE k \in 1..Len(UpperCase) :
                               CharAt(UpperCase, k) = CharAt(str, i))
    ELSE CharAt(str, i)

\* str.toLowerCase()
ToLowerCase(str) == Rewrite(LowerChar, str, 1, Len(str))

\* str.includes(sub)
Includes(str, sub) ==
    \E i \in 1..(Len(str) - Len(sub) + 1) : SubSeq(str, i, i + Len(sub) - 1) = sub

\* showMessage(text, type): success and info messages get a timer that hides
\* messageDiv, and no timer is ever cancelled
showMessage(m, text, type) ==
    [text |-> text, type |-> type, shown |-> TRUE,
     hidePending |-> m.hidePending \/ type \in {"success", "info"}]

\* the callback of allArticles.filter in filterArticles
Matches(article, kws) ==
    LET content == Trim(article.content)
        excerpt == Trim(IF article.excerpt = Null THEN "" ELSE article.excerpt)
        searchText == ToLowerCase(article.title \o " " \o excerpt \o " " \o content)
    IN  /\ content # "" /\ content # excerpt
        /\ \E k \in 1..Len(kws) : Includes(searchText, ToLowerCase(kws[k]))

\* articles of the dataset file
PageArticles ==
    {[id |-> "a1", title |-> "Bears win", excerpt |-> "Recap",
      content |-> "Full recap of the game"],
     [id |-> "a2", title |-> "Bears trade", excerpt |-> "Short", content |-> "Short"],
     [id |-> "a3", title |-> "Draft news", excerpt |-> Null,
      content |-> "The packers sign a rookie"]}

\* the keyword lists the page can hold: 'Bears' and what the user adds
KeywordLists ==
    {kws \in SeqsUpTo({"Bears", "Packers"}, 2) :
        \A i, j \in 1..Len(kws) : i # j => kws[i] # kws[j]}

\* the pairs of an article and a keyword list for which Matches holds, worked
\* out once
MatchesAt ==
    UNION {IF Matches(a, kws) THEN {<<a, kws>>} ELSE {} :
               a \in PageArticles, kws \in KeywordLists}

RECURSIVE Filter(_, _)
Filter(items, kws) ==
    IF items = <<>> THEN <<>>
    ELSE (IF <<Head(items), kws>> \in MatchesAt THEN <<Head(items)>> ELSE <<>>)
         \o Filter(Tail(items), kws)

\* filterArticles(): without keywords a message and []; otherwise
\* allArticles.length and allArticles.filter are used, which throw a TypeError
\* on undefined and on an object that has no filter
filterArticles(all, kws, m) ==
    IF Len(kws) = 0
    THEN [threw |-> FALSE, articles |-> <<>>,
          message |-> showMessage(m, "Please add at least one keyword", "info")]
    ELSE IF all.kind # "array"
    THEN [threw |-> TRUE, articles |-> <<>>, message |-> m]
    ELSE [threw |-> FALSE, articles |-> Filter(all.items, kws), message |-> m]

\* what fetch('./data/articles.json') and response.json() can give:
\*   "fetchError"     fetch rejects
\*   "notOk"          response.ok is false
\*   "badJson"        response.json() rejects
\*   "null"           the JSON text null
\*   "noArticles"     an object without articles
\*   "articlesObject" articles is an object, not an array
\*   "array"          articles is an array
Datasets ==
    {[kind |-> k, items |-> <<>>] :
        k \in {"fetchError", "notOk", "badJson", "null", "noArticles", "articlesObject"}}
    \cup {[kind |-> "array", items |-> a] : a \in SeqsUpTo(PageArticles, MaxItems)}

\* generateBtn as the page's markup gives it to the script: "Once there is at
\* least one article selected, there should be a 'Generate' button available"
GenerateStartsDisabled == TRUE

InitPage ==
    /\ now = Hours(StartHour)
    /\ dataset \in Datasets
    /\ generateDisabled = GenerateStartsDisabled
    /\ PageLoaded
    /\ file = <<>>
    /\ pc = "init"
    /\ existingArticles = <<>> /\ allNew = <<>> /\ idx = 0 /\ outcomes = <<>>
    /\ firstOut = <<>> /\ rerun = FALSE
    /\ payload = NoPayload /\ result = Returned(<<>>)
    /\ LoadIdle /\ FetchIdle /\ NetIdle

\* init(): renderKeywords() and loadArticles(); allArticles = data.articles
\* is assigned before allArticles.length is read inside the try block
loadArticles ==
    /\ pc = "init"
    /\ pc' = "ready"
    /\ lastEvent' = "load"
    /\ CASE dataset.kind \in {"fetchError", "notOk", "badJson", "null"} ->
               /\ message' = showMessage(message, "Error loading articles", "error")
               /\ UNCHANGED allArticles
         [] dataset.kind = "noArticles" ->
               /\ allArticles' = Undefined
               /\ message' = showMessage(message, "Error loading articles", "error")
         [] dataset.kind = "articlesObject" ->
               /\ allArticles' = PlainObject
               /\ UNCHANGED message
         [] OTHER ->
               /\ allArticles' = ArrayOf(dataset.items)
               /\ UNCHANGED message
    /\ UNCHANGED <<dataset, keywords, selectedArticles, rendered, sectionShown,
                   generateDisabled, generating, uncaught, pageRest>>

\* addKeyword() with the text of the input field
addKeyword ==
    /\ pc = "ready"
    /\ \E keyword \in {"Bears", "Packers"} :
          /\ \A k \in 1..Len(keywords) : keywords[k] # keyword
          /\ keywords' = Append(keywords, keyword)
    /\ lastEvent' = "addKeyword"
    /\ UNCHANGED <<dataset, allArticles, selectedArticles, rendered, message, sectionShown,
                   generateDisabled, generating, uncaught, pageFrame>>

\* the click handler of a keyword's remove button
removeKeyword ==
    /\ pc = "ready"
    /\ \E k \in 1..Len(keywords) :
          keywords' = SelectSeq(keywords, LAMBDA x : x # keywords[k])
    /\ lastEvent' = "removeKeyword"
    /\ UNCHANGED <<dataset, allArticles, selectedArticles, rendered, message, sectionShown,
                   generateDisabled, generating, uncaught, pageFrame>>

\* updateSelectionCount(): generateBtn.disabled = count === 0
updateSelectionCount(selected) == (selected = {})

\* a finally block that enables the button whatever is selected
DisabledFinallyNever(selected) == FALSE

\* the finally block of handleGenerate: generateBtn.disabled =
\* selectedArticles.size === 0
DisabledFinally(selected) == (selected = {})

\* handleSearch()
handleSearch ==
    /\ pc = "ready"
    /\ lastEvent' = "search"
    /\ LET filtered == filterArticles(allArticles, keywords, message)
       IN  IF filtered.threw
           THEN /\ uncaught' = "TypeError"
                /\ UNCHANGED <<message, sectionShown, selectedArticles, rendered,
                               generateDisabled>>
           ELSE IF Len(filtered.articles) = 0
           THEN /\ message' = showMessage(filtered.message,
                                          "No articles found matching your keywords", "info")
                /\ sectionShown' = FALSE
                /\ UNCHANGED <<selectedArticles, rendered, generateDisabled, uncaught>>
           ELSE /\ selectedArticles' = {}
                /\ rendered' = [i \in 1..Len(filtered.articles) |-> filtered.articles[i].id]
                /\ sectionShown' = TRUE
                /\ generateDisabled' = updateSelectionCount(selectedArticles')
                /\ message' = [filtered.message EXCEPT !.shown = FALSE]
                /\ UNCHANGED uncaught
    /\ UNCHANGED <<dataset, allArticles, keywords, generating, pageFrame>>

\* the change handler of a rendered checkbox
toggleCheckbox ==
    /\ pc = "ready"
    /\ \E i \in 1..Len(rendered) :
          selectedArticles' = IF rendered[i] \in selectedArticles
                              THEN selectedArticles \ {rendered[i]}
                              ELSE selectedArticles \cup {rendered[i]}
    /\ generateDisabled' = updateSelectionCount(selectedArticles')
    /\ lastEvent' = "toggle"
    /\ UNCHANGED <<dataset, allArticles, keywords, rendered, message, sectionShown,
                   generating, uncaught, pageFrame>>

\* selectAllArticles()
selectAllArticles ==
    /\ pc = "ready"
    /\ lastEvent' = "selectAll"
    /\ LET filtered == filterArticles(allArticles, keywords, message)
       IN  IF filtered.threw
           THEN /\ uncaught' = "TypeError"
                /\ UNCHANGED <<message, selectedArticles, generateDisabled>>
           ELSE /\ selectedArticles' = selectedArticles \cup
                        {filtered.articles[i].id : i \in 1..Len(filtered.articles)}
                /\ generateDisabled' = updateSelectionCount(selectedArticles')
                /\ message' = filtered.message
                /\ UNCHANGED uncaught
    /\ UNCHANGED <<dataset, allArticles, keywords, rendered, sectionShown, generating,
                   pageFrame>>

\* deselectAllArticles()
deselectAllArticles ==
    /\ pc = "ready"
    /\ lastEvent' = "deselectAll"
    /\ selectedArticles' = {}
    /\ generateDisabled' = updateSelectionCount(selectedArticles')
    /\ UNCHANGED <<dataset, allArticles, keywords, rendered, message, sectionShown,
                   generating, uncaught, pageFrame>>

\* handleGenerate() up to its await, the click of a button that is not
\* disabled: without a selection a message and nothing else; otherwise the
\* button is disabled and allArticles.filter runs, and when that throws the
\* catch and the finally blocks run at once; when it returns the handler
\* stays at await downloadDocx(articlesToInclude)
handleGenerate ==
    /\ pc = "ready"
    /\ ~generateDisabled
    /\ generating < MaxGenerating
    /\ lastEvent' = "generate"
    /\ IF selectedArticles = {}
       THEN /\ message' = showMessage(message, "Please select at least one article", "error")
            /\ UNCHANGED <<generateDisabled, generating>>
       ELSE IF allArticles.kind # "array"
       THEN /\ message' = showMessage(showMessage(message, "Generating document...", "info"),
                                      "Error generating document", "error")
            /\ generateDisabled' = DisabledFinally(selectedArticles)
            /\ UNCHANGED generating
       ELSE /\ message' = showMessage(message, "Generating document...", "info")
            /\ generateDisabled' = TRUE
            /\ generating' = generating + 1
    /\ UNCHANGED <<dataset, allArticles, keywords, selectedArticles, rendered, sectionShown,
                   uncaught, pageFrame>>

\* downloadDocx settles and handleGenerate goes on behind its await: the
\* success message, or the catch block's, and then the finally block
downloadDocxSettles ==
    /\ pc = "ready"
    /\ generating > 0
    /\ generating' = generating - 1
    /\ \E ok \in BOOLEAN :
          message' =
              IF ok
              THEN showMessage(message, "Document generated and downloaded successfully!",
                               "success")
              ELSE showMessage(message, "Error generating document", "error")
    /\ generateDisabled' = DisabledFinally(selectedArticles)
    /\ lastEvent' = "generated"
    /\ UNCHANGED <<dataset, allArticles, keywords, selectedArticles, rendered, sectionShown,
                   uncaught, pageFrame>>

\* a timer set by showMessage fires and hides messageDiv
hideMessage ==
    /\ pc = "ready"
    /\ message.hidePending
    /\ message' = [message EXCEPT !.shown = FALSE, !.hidePending = FALSE]
    /\ lastEvent' = "timer"
    /\ UNCHANGED <<dataset, allArticles, keywords, selectedArticles, rendered, sectionShown,
                   generateDisabled, generating, uncaught, pageFrame>>

NextPage ==
    \/ loadArticles \/ addKeyword \/ removeKeyword \/ handleSearch \/ toggleCheckbox
    \/ selectAllArticles \/ deselectAllArticles \/ handleGenerate \/ downloadDocxSettles
    \/ hideMessage

SpecPage == InitPage /\ [][NextPage]_vars

\* ------------------------------------------- run() on whatever is on disk
\* an element of raw.articles: a record, null, or a primitive (a number, a
\* string, a boolean)
Element(kind, rec) == [kind |-> kind, rec |-> rec]

\* what reading id, title, sourceUrl and publishedAt gives on a value that
\* has none of them (undefined, falsy, written "" and NoDate)
NoFields == [id |-> "", title |-> "", sourceUrl |-> "", publishedAt |-> NoDate]

\* the shapes of a file's content:
\*   "absent"        existsSync(OUTPUT_PATH) is false
\*   "unparseable"   JSON.parse throws
\*   "null"          the JSON text null: raw.articles throws inside the try
\*   "noArticles"    an object without articles, or with a falsy articles
\*   "articlesObject" articles is an object or a number: truthy, not iterable
\*   "articlesString" articles is a non-empty string: iterable, by character
\*   "list"          articles is an array
Shapes == {"absent", "unparseable", "null", "noArticles", "articlesObject",
           "articlesString", "list"}

OnDisk(shape, articles) == [shape |-> shape, articles |-> articles]

\* run(), lines 700-709: the value existingArticles is left with; for a
\* string it is the string itself and for an object the object
LoadExisting(r) ==
    IF r.shape \in {"absent", "unparseable", "null", "noArticles"} THEN <<>>
    ELSE r.articles

\* for (const a of existingArticles): a value that is not iterable throws
Iterable(r) == r.shape # "articlesObject"

\* a.publishedAt and a.id in the eviction loop: null throws a TypeError, a
\* primitive has no such properties
ReadsThrow(el) == el.kind = "null"

Fields(el) == IF el.kind = "record" THEN el.rec ELSE NoFields

RECURSIVE FieldsOf(_)
FieldsOf(elements) ==
    IF elements = <<>> THEN <<>>
    ELSE <<Fields(Head(elements))>> \o FieldsOf(Tail(elements))

\* the eviction loop throws at the first element it cannot read
EvictionThrows(r) ==
    \/ ~Iterable(r)
    \/ \E i \in 1..Len(LoadExisting(r)) : ReadsThrow(LoadExisting(r)[i])

\* elements a file may hold: records as run() writes them, records without
\* id and title, null, a primitive
DiskElements(t) ==
    {Element("record", [id |-> urlToId("https://s/x"), title |-> "Old title",
                        sourceUrl |-> "https://s/x", publishedAt |-> d]) :
        d \in {NoDate, t - Hours(30), t - Hours(1)}}
    \cup {Element("record", NoFields), Element("null", NoFields),
          Element("primitive", NoFields)}

\* what may be on disk: every shape; the characters of a string are primitives
DiskContents(t) ==
    {OnDisk(sh, <<>>) : sh \in Shapes \ {"list", "articlesString"}}
    \cup {OnDisk("articlesString", <<Element("primitive", NoFields),
                                      Element("primitive", NoFields)>>)}
    \cup {OnDisk("list", a) : a \in SeqsUpTo(DiskElements(t), MaxExisting)}

\* drafts the sources hand over during the run
LoadDrafts(t) ==
    {[id |-> urlToId(u), title |-> ti, sourceUrl |-> u, publishedAt |-> t - Hours(1)] :
        u \in Urls, ti \in {"", "New title"}}

InitLoad ==
    /\ now = Hours(StartHour)
    /\ raw \in DiskContents(now)
    /\ raised = "none"
    /\ FetchIdle /\ PageIdle /\ NetIdle
    /\ allNew \in SeqsUpTo(LoadDrafts(now), 1)
    /\ file = <<>>
    /\ pc = "idle"
    /\ existingArticles = <<>> /\ idx = 0 /\ outcomes = <<>>
    /\ firstOut = <<>> /\ rerun = FALSE
    /\ payload = NoPayload /\ result = Returned(<<>>)

\* run() from the load to the write, the sources having handed over allNew:
\* a TypeError in the eviction loop leaves run() before anything is written
LoadMergeWrite ==
    /\ pc = "idle"
    /\ IF EvictionThrows(raw)
       THEN /\ raised' = "TypeError"
            /\ pc' = "fatal"
            /\ UNCHANGED <<file, existingArticles>>
       ELSE /\ existingArticles' = FieldsOf(LoadExisting(raw))
            /\ \/ /\ \E articles \in MergeOutcomes(FieldsOf(LoadExisting(raw)), allNew, now) :
                         file' = articles
                   /\ pc' = "done"
                   /\ raised' = "none"
                \/ /\ pc' = "fatal"
                   /\ raised' = "write"
                   /\ UNCHANGED file
    /\ UNCHANGED <<now, allNew, idx, outcomes, pairVars, strategyVars, raw, fetchVars,
                   pageVars, netVars>>

\* the next run finds on disk what this one wrote
LoadNext ==
    /\ pc = "done"
    /\ ~rerun
    /\ raw' = OnDisk("list", [i \in 1..Len(file) |-> Element("record", file[i])])
    /\ rerun' = TRUE
    /\ pc' = "idle"
    /\ UNCHANGED <<now, file, runVars, firstOut, strategyVars, raised, fetchVars,
                   pageVars, netVars>>

NextLoad == LoadMergeWrite \/ LoadNext

SpecLoad == InitLoad /\ [][NextLoad]_vars

\* ------------------------------------------- generateDocx, section by section
\* createBylineAndPageNumber: the run `Page ${pageNum} of ${totalPages}`
PageLabel(pageNum, totalPages) ==
    "Page " \o ToString(pageNum) \o " of " \o ToString(totalPages)

\* const pageNum = index + 1, taken from zero in the mutant
PageNumFromZero(index) == index

PageNum(index) == index + 1

\* the text createBodyParagraphs is given: article.content || article.excerpt || ''
BodyOf(article) ==
    IF article.content # Null /\ article.content # "" THEN article.content
    ELSE IF article.excerpt # Null /\ article.excerpt # "" THEN article.excerpt
    ELSE ""

\* the two sections pushed for articles[index] and for those behind it: the
\* header section on a new page, then the continuous two-column body section
RECURSIVE ForEachArticle(_, _, _)
ForEachArticle(articles, index, totalPages) ==
    IF index = Len(articles) THEN <<>>
    ELSE <<[type |-> "NEXT_PAGE", title |-> articles[index + 1].title,
            label |-> PageLabel(PageNum(index), totalPages), text |-> ""],
           [type |-> "CONTINUOUS", title |-> "", label |-> "",
            text |-> BodyOf(articles[index + 1])]>>
         \o ForEachArticle(articles, index + 1, totalPages)

\* generateDocx(articles): the sections of the Document, the cover page first;
\* fetchLogoBuffer gives a buffer or null and never throws
generateDocx(articles, logoBuffer) ==
    <<[type |-> "cover", title |-> "CHICAGO BEARS MEDIA CLIPS",
       label |-> IF logoBuffer THEN "logo" ELSE "", text |-> ""]>>
    \o ForEachArticle(articles, 0, Len(articles))

InitDocx ==
    /\ now = Hours(StartHour)
    /\ payload \in {[kind |-> "selected", ok |-> TRUE, items |-> a] :
                       a \in SeqsUpTo(PageArticles, MaxSelected)}
    /\ result = [threw |-> FALSE, articles |-> <<>>]
    /\ pc = "called"
    /\ file = <<>>
    /\ existingArticles = <<>> /\ allNew = <<>> /\ idx = 0 /\ outcomes = <<>>
    /\ firstOut = <<>> /\ rerun = FALSE
    /\ SideIdle

\* a call of generateDocx with the selected articles
ApplyGenerateDocx ==
    /\ pc = "called" /\ payload.kind = "selected"
    /\ \E logoBuffer \in BOOLEAN :
          result' = [threw |-> FALSE, articles |-> generateDocx(payload.items, logoBuffer)]
    /\ pc' = "returned"
    /\ UNCHANGED <<now, file, runVars, pairVars, payload, sideVars>>

NextDocx == ApplyGenerateDocx

SpecDocx == InitDocx /\ [][NextDocx]_vars

\* ------------------------------------------- run(), request by request
\* a request: the URL, the source it is made for (0 is the API source, i is
\* SITE_CONFIGS[i]), what is asked for, and how it stands: "inFlight", or
\* settled "ok", "failed" (network error or non-2xx status) or "timedOut"
\* (fetchPage's timer aborted it)
Request(url, by, kind) == [url |-> url, by |-> by, kind |-> kind, state |-> "inFlight"]

ESPN_API == "https://site.api.espn.com/apis/site/v2/sports/football/nfl/news?team=3&limit=50"

\* the drafts still to be handled once the fetch for url has settled:
\* results.push(article) and the loop goes on, whatever the fetch gave
AfterFetchRetries(rest, url, outcome) == IF outcome = "ok" THEN rest ELSE <<url>> \o rest

AfterFetch(rest, url, outcome) == rest

\* if (!article.sourceUrl) { results.push(article); continue; }
RECURSIVE SkipWithoutUrl(_)
SkipWithoutUrl(urls) ==
    IF urls = <<>> THEN <<>>
    ELSE IF Head(urls) = "" THEN SkipWithoutUrl(Tail(urls))
    ELSE urls

\* run() goes on synchronously up to its next await: the fetch for the next
\* draft of the batch that has a URL; with the batch done, the listing or
\* feed of the next config; with the configs done, the merge section
GoOn(source, rest) ==
    LET urls == SkipWithoutUrl(rest)
    IN  IF urls # <<>>
        THEN /\ requests' = Append(requests, Request(Head(urls), source, "article"))
             /\ batch' = Tail(urls)
             /\ idx' = source
             /\ pc' = "enrich"
        ELSE IF source < Len(SITE_CONFIGS)
        THEN /\ requests' = Append(requests,
                                   Request(SITE_CONFIGS[source + 1].listUrl, source + 1, "list"))
             /\ batch' = <<>>
             /\ idx' = source + 1
             /\ pc' = "list"
        ELSE /\ UNCHANGED requests
             /\ batch' = <<>>
             /\ idx' = source
             /\ pc' = "merge"

\* the requests with the one in flight settled
Settled(outcome) == [requests EXCEPT ![Len(requests)].state = outcome]

\* the sourceUrl fields of the drafts the API mapper may return: a link may be
\* missing and may come twice
ApiDraftUrls == SeqsUpTo(Urls \cup {""}, MaxLinks)

\* the sourceUrl fields of the drafts scrapeHtmlListing may return: never
\* empty, and none twice (seen)
ListedDraftUrls ==
    {u \in SeqsUpTo(Urls, MaxLinks) : \A i, j \in 1..Len(u) : i # j => u[i] # u[j]}

\* the sourceUrl fields of the drafts scrapeRss may return (none is fetched)
FeedDraftUrls == {<<>>, <<"https://s/w">>}

Drafts(urls) == [i \in 1..Len(urls) |-> [sourceUrl |-> urls[i]]]

requestFrame == <<now, file, existingArticles, allNew, pairVars, strategyVars, loadVars,
                  fetchVars, pageVars>>

InitRequests ==
    /\ now = Hours(StartHour)
    /\ file = <<>>
    /\ pc = "idle"
    /\ existingArticles = <<>> /\ allNew = <<>> /\ idx = 0 /\ outcomes = <<>>
    /\ firstOut = <<>> /\ rerun = FALSE
    /\ payload = NoPayload /\ result = Returned(<<>>)
    /\ SideIdle

\* run() up to await fetch(...) in scrapeEspn
CallScrapeEspn ==
    /\ pc = "idle"
    /\ requests' = <<Request(ESPN_API, 0, "api")>>
    /\ pc' = "api"
    /\ UNCHANGED <<idx, outcomes, batch, requestFrame>>

\* the API request settles (it has no timer): with a response the mapped
\* drafts go to enrichWithContent, without one scrapeEspn returns []
ApiSettles ==
    /\ pc = "api"
    /\ \/ \E urls \in ApiDraftUrls :
             /\ outcomes' = Append(outcomes, Returned(Drafts(urls)))
             /\ LET log == Settled("ok")
                    rest == SkipWithoutUrl(Limited(urls))
                IN  IF rest # <<>>
                    THEN /\ requests' = Append(log, Request(Head(rest), 0, "article"))
                         /\ batch' = Tail(rest)
                         /\ UNCHANGED idx
                         /\ pc' = "enrich"
                    ELSE /\ requests' = Append(log, Request(SITE_CONFIGS[1].listUrl, 1, "list"))
                         /\ batch' = <<>>
                         /\ idx' = 1
                         /\ pc' = "list"
       \/ /\ outcomes' = Append(outcomes, Returned(<<>>))
          /\ requests' = Append(Settled("failed"), Request(SITE_CONFIGS[1].listUrl, 1, "list"))
          /\ batch' = <<>>
          /\ idx' = 1
          /\ pc' = "list"
    /\ UNCHANGED requestFrame

\* fetchPage(article.sourceUrl) settles in enrichWithContent; the loop then
\* waits in sleep(600)
ArticleFetchSettles ==
    /\ pc = "enrich"
    /\ \E outcome \in {"ok", "failed", "timedOut"} :
          /\ requests' = Settled(outcome)
          /\ batch' = AfterFetch(batch, requests[Len(requests)].url, outcome)
    /\ pc' = "sleep"
    /\ UNCHANGED <<idx, outcomes, requestFrame>>

\* sleep(600) is over
SleepOver ==
    /\ pc = "sleep"
    /\ GoOn(idx, batch)
    /\ UNCHANGED <<outcomes, requestFrame>>

\* fetchPage(config.url) or fetchPage(config.rssUrl) settles: a feed's drafts
\* are pushed as they are, a listing's drafts are enriched if the config has
\* followLinks and there are any; a strategy that throws pushes nothing
ListFetchSettles ==
    /\ pc = "list"
    /\ \E outcome \in {"ok", "failed", "timedOut"} :
       \E urls \in (IF outcome # "ok" THEN {<<>>}
                    ELSE IF SITE_CONFIGS[idx].type = "rss" THEN FeedDraftUrls
                    ELSE ListedDraftUrls) :
          /\ outcomes' = Append(outcomes, Returned(Drafts(urls)))
          /\ LET log == Settled(outcome)
                 rest == IF SITE_CONFIGS[idx].type # "rss" /\ SITE_CONFIGS[idx].followLinks
                         THEN SkipWithoutUrl(Limited(urls)) ELSE <<>>
             IN  IF rest # <<>>
                 THEN /\ requests' = Append(log, Request(Head(rest), idx, "article"))
                      /\ batch' = Tail(rest)
                      /\ UNCHANGED idx
                      /\ pc' = "enrich"
                 ELSE IF idx < Len(SITE_CONFIGS)
                 THEN /\ requests' = Append(log, Request(SITE_CONFIGS[idx + 1].listUrl,
                                                         idx + 1, "list"))
                      /\ batch' = <<>>
                      /\ idx' = idx + 1
                      /\ pc' = "list"
                 ELSE /\ requests' = log
                      /\ batch' = <<>>
                      /\ UNCHANGED idx
                      /\ pc' = "merge"
    /\ UNCHANGED requestFrame

NextRequests ==
    CallScrapeEspn \/ ApiSettles \/ ArticleFetchSettles \/ SleepOver \/ ListFetchSettles

SpecRequests == InitRequests /\ [][NextRequests]_vars

\* ------------------------------------------------------------------ claims
Ids(articles) == {articles[i].id : i \in 1..Len(articles)}

StoredUnder(id) == {r \in Range(file) : r.id = id}

\* C1: with the clock held fixed, running the merge step again on its own
\* output with the same drafts writes the same article list, in the same order
MergeIdempotent == (rerun /\ pc = "done") => file = firstOut

\* the timestamp the ordering is stated in: "now" for an absent publishedAt
EffectiveTimestamp(a) == IF a.publishedAt = NoDate THEN now ELSE a.publishedAt

\* C2: in the written list every record's effective timestamp is at least
\* that of the record behind it, an undated record counting as "now"
\* (records with an unparseable date have no timestamp and are passed over)
OrderedByEffectiveTimestamp ==
    pc = "done" =>
        \A i \in 1..(Len(file) - 1) :
            (file[i].publishedAt # BadDate /\ file[i + 1].publishedAt # BadDate)
                => EffectiveTimestamp(file[i]) >= EffectiveTimestamp(file[i + 1])

\* C3 as stated: for every existing record and every new draft with the same
\* id, the record stored under that id is the draft
OverwriteWinsEveryDraft ==
    pc = "done" =>
        \A e \in Range(existingArticles), n \in Range(allNew) :
            n.id = e.id => StoredUnder(e.id) = {n}

\* C3 as amended: for every existing record and every new draft with the same
\* id that has a non-empty title and is the last such draft in allNew, the
\* record stored under that id is the draft
OverwriteWinsLastTitledDraft ==
    pc = "done" =>
        \A e \in Range(existingArticles), i \in 1..Len(allNew) :
            ( /\ allNew[i].id = e.id
              /\ allNew[i].title # ""
              /\ \A j \in (i + 1)..Len(allNew) :
                     ~(allNew[j].id = e.id /\ allNew[j].title # "") )
            => StoredUnder(e.id) = {allNew[i]}

\* C3 witness: a record that survives eviction was overwritten by a draft
\* that differs from it
OverwriteHappened ==
    /\ pc = "done"
    /\ \E e \in Range(existingArticles), n \in Range(allNew) :
           /\ n.id = e.id /\ n.title # "" /\ n # e
           /\ e.publishedAt = now - Hours(1)
           /\ StoredUnder(e.id) = {n}

\* C4: an existing record published more than 26 hours ago whose id is not
\* among the new drafts is not in the written list; the one-record example
\* of the specification ends with exactly the new record
StaleRecordEvicted ==
    pc = "done" =>
        /\ \A e \in Range(existingArticles) :
               ( /\ e.publishedAt # NoDate /\ e.publishedAt # BadDate
                 /\ now - e.publishedAt > LOOKBACK_HOURS * HourMs
                 /\ e.id \notin Ids(allNew) )
               => e \notin Range(file)
        /\ ( /\ Len(existingArticles) = 1 /\ Len(allNew) = 1
             /\ existingArticles[1].publishedAt = now - Hours(30)
             /\ allNew[1].id # existingArticles[1].id
             /\ allNew[1].title # "" )
           => file = allNew

\* C4 witness: the example of the specification has run
EvictionExampleRan ==
    /\ pc = "done" /\ ~rerun
    /\ Len(existingArticles) = 1 /\ Len(allNew) = 1
    /\ existingArticles[1].publishedAt = now - Hours(30)
    /\ allNew[1].id # existingArticles[1].id
    /\ allNew[1].title # ""
    /\ file = allNew

\* C5: no two records of the written list have the same id
NoDuplicateIds ==
    pc = "done" =>
        \A i, j \in 1..Len(file) : i # j => file[i].id # file[j].id

\* C5 witness: a prior dataset with a duplicated id, both copies inside the
\* window, and a draft with that id again, were merged
DuplicatesWereMerged ==
    /\ pc = "done" /\ ~rerun
    /\ Len(existingArticles) = 2
    /\ existingArticles[1].id = existingArticles[2].id
    /\ existingArticles[1].publishedAt = NoDate
    /\ existingArticles[2].publishedAt = now - Hours(1)
    /\ \E n \in Range(allNew) : n.id = existingArticles[1].id /\ n.title # ""
    /\ Len(file) >= 1

\* what the caller of the strategy under test receives
Delivered == IF result.threw THEN <<>> ELSE result.articles

DraftsFor(url) == {k \in 1..Len(Delivered) : Delivered[k].sourceUrl = url}

Unparseable(p) == p = BadDate
Parseable(p) == p # NoDate /\ p # BadDate

\* C7: a feed entry that has a title and a link yields a draft unless its
\* publish date parses and lies before the cutoff; in particular an entry
\* with an unparseable date yields one and keeps no other entry from it
FeedEntryDroppedOnlyForCause ==
    (pc = "scraped" /\ payload.kind = "rss" /\ payload.ok) =>
        \A i \in 1..Len(payload.items) :
            LET el == payload.items[i]
            IN  ( /\ cleanText(el.title) # ""
                  /\ el.link # ""
                  /\ ~(Parseable(el.pubDate) /\ el.pubDate < Cutoff(now)) )
                => \E k \in DraftsFor(el.link) :
                       Delivered[k].title = cleanText(el.title)

\* C8: in each strategy a candidate without a timestamp, or with one that
\* does not parse, is not dropped for its date (in the feed strategy the
\* recency check is what is stated: an exception raised behind it is C7's)
InclusionBiasEveryStrategy ==
    (pc = "scraped" /\ payload.ok) =>
        \A i \in 1..Len(payload.items) :
            LET el == payload.items[i]
            IN  /\ ( /\ payload.kind = "espn"
                     /\ \/ (el.published = NoDate /\ el.lastModified = NoDate)
                        \/ Unparseable(el.published) )
                   => \E k \in 1..Len(Delivered) :
                          Delivered[k].id = urlToId(IF el.href # "" THEN el.href ELSE el.id)
                /\ ( /\ payload.kind = "html"
                     /\ Len(cleanText(el.title)) >= 5
                     /\ resolveUrl(el.href, "https://s/list") # ""
                     /\ \A j \in 1..(i - 1) :
                            resolveUrl(payload.items[j].href, "https://s/list")
                                # resolveUrl(el.href, "https://s/list")
                     /\ (el.date = NoDate \/ Unparseable(el.date)) )
                   => DraftsFor(resolveUrl(el.href, "https://s/list")) # {}
                /\ ( /\ payload.kind = "rss"
                     /\ cleanText(el.title) # "" /\ el.link # ""
                     /\ (el.pubDate = NoDate \/ Unparseable(el.pubDate)) )
                   => (result.threw \/ DraftsFor(el.link) # {})

\* an item container that would be accepted if it stood alone on the page
AcceptableAlone(el) ==
    /\ Len(cleanText(el.title)) >= 5
    /\ resolveUrl(el.href, "https://s/list") # ""
    /\ \/ el.date = NoDate
       \/ Unparseable(el.date)
       \/ now - el.date < LOOKBACK_HOURS * HourMs

\* C9: when two item containers of a listing page resolve to the same URL
\* and at least one of them is otherwise acceptable, the strategy returns
\* exactly one draft for that URL
HtmlListingDedup ==
    (pc = "scraped" /\ payload.kind = "html" /\ payload.ok) =>
        \A i, j \in 1..Len(payload.items) :
            LET u == resolveUrl(payload.items[i].href, "https://s/list")
            IN  ( /\ i < j
                  /\ u # ""
                  /\ resolveUrl(payload.items[j].href, "https://s/list") = u
                  /\ (AcceptableAlone(payload.items[i]) \/ AcceptableAlone(payload.items[j])) )
                => Cardinality(DraftsFor(u)) = 1

\* what the sources handed over, going by how each strategy ended
RECURSIVE Contributions(_)
Contributions(os) ==
    IF os = <<>> THEN <<>>
    ELSE (IF Head(os).threw THEN <<>> ELSE Head(os).articles) \o Contributions(Tail(os))

\* C6: a source whose strategy or enrichment throws adds nothing to allNew,
\* the drafts of every other source are in allNew in source order, and the
\* run reaches the merge step with every configured source handled
PartialFailureIsolation ==
    /\ pc \in {"sites", "merge", "done", "fatal"} => allNew = Contributions(outcomes)
    /\ pc \in {"merge", "done", "fatal"} => Len(outcomes) = 1 + Len(SITE_CONFIGS)

\* C6 witness: a run was written in which one source threw after it had
\* extracted drafts and another source's drafts were merged
FailedSourceIsolated ==
    /\ pc = "done"
    /\ \E i, j \in 1..Len(outcomes) :
           /\ outcomes[i].threw /\ outcomes[i].articles # <<>>
           /\ ~outcomes[j].threw /\ outcomes[j].articles # <<>>
           /\ i < j
           /\ Ids(outcomes[j].articles) \subseteq Ids(file)
           /\ Ids(outcomes[i].articles) \cap Ids(file) = {}

AllIds == {urlToId(u) : u \in Urls}

StoredWithDate(id) == \E r \in Range(file) : r.id = id /\ r.publishedAt # NoDate

Malformed(r) ==
    \/ r.shape # "list"
    \/ \E i \in 1..Len(r.articles) : r.articles[i].kind # "record"

\* C11: when the prior dataset file is corrupt or not of the expected shape,
\* run() is not left with an error of its own making and what it writes is
\* what it writes on a first run with the same drafts
MalformedTreatedAsEmpty ==
    (pc \in {"done", "fatal"} /\ Malformed(raw)) =>
        /\ raised # "TypeError"
        /\ pc = "done" => file \in MergeOutcomes(<<>>, allNew, now)

\* C12: whatever the network call ends in, the caller of fetchPage receives
\* null or the payload text, the text exactly when a 2xx response was read to
\* its end, and never an exception
FetchPageNeverThrows ==
    fpc = "returned" =>
        /\ returned \in {"null", "text"}
        /\ returned = "text" <=>
              /\ server.outcome = "status200" /\ server.respondsAt # Never
              /\ server.bodyAt # Never /\ server.bodyOutcome = "text"
              /\ timer # "fired"

\* C12 witness: the read of the body failed and the caller received null
BodyFailureReturnedNull ==
    /\ fpc = "returned" /\ returned = "null"
    /\ server.outcome = "status200" /\ server.bodyOutcome = "readError"
    /\ elapsed = server.respondsAt + server.bodyAt
    /\ timer = "cleared"

\* C13: every call of fetchPage returns, and the timer is armed for as long
\* as the body is being read
FetchPageAlwaysReturns ==
    /\ [](fpc = "reading" => timer = "armed")
    /\ (fpc \in {"fetching", "reading"}) ~> (fpc = "returned")

\* C14: whatever the API endpoint does, a run that has started reaches the
\* merge and write step and ends
RunReachesWrite == (pc = "idle") ~> (pc \in {"done", "fatal"})

\* C15: isRecent returns true exactly when the timestamp is absent or
\* unparseable or less than 26 hours before now; at exactly 26 hours it
\* returns false
IsRecentIffInsideWindow ==
    (pc = "returned" /\ payload.kind = "dateStr") =>
        LET p == payload.items[1]
        IN  /\ result.value <=>
                  (p = NoDate \/ p = BadDate \/ now - p < 26 * 3600000)
            /\ (Parseable(p) /\ now - p = 26 * 3600000) => ~result.value

\* C15 witness: isRecent was asked about the instant exactly 26 hours ago
\* and returned false
FarEdgeAsked ==
    /\ pc = "returned" /\ payload.kind = "dateStr"
    /\ payload.items[1] = now - 26 * 3600000
    /\ ~result.value

\* C16 as stated: every record of the written list has a non-empty id and a
\* non-empty title, whatever the prior dataset and the drafts
WrittenRecordsHaveIdAndTitle ==
    pc = "done" => \A r \in Range(file) : r.id # "" /\ r.title # ""

\* the URLs of the drafts at positions 1..MAX_FOLLOW_PER_SITE of the batch
UrlsWithinCap ==
    {payload.items[i].sourceUrl : i \in 1..Min(Len(payload.items), 10)}

\* C17: the enricher fetches only for drafts among the first 10 of its
\* input, returns every draft from position 11 on unchanged, and returns the
\* same drafts in the same order and number
CapThenPassThrough ==
    (pc = "returned" /\ payload.kind = "drafts") =>
        /\ Len(result.articles) = Len(payload.items)
        /\ \A i \in 1..Len(payload.items) :
               /\ result.articles[i].id = payload.items[i].id
               /\ i >= 11 => result.articles[i] = payload.items[i]
        /\ Range(result.fetched) \subseteq UrlsWithinCap

\* C17 witness: of a batch of more than 10 drafts the tenth was enriched and
\* the eleventh was not
CapReached ==
    /\ pc = "returned" /\ payload.kind = "drafts"
    /\ Len(payload.items) >= 11
    /\ result.articles[10].content = BodyText(payload.items[10].sourceUrl)
    /\ result.articles[11].content = payload.items[11].content
    /\ Len(result.fetched) = 10

\* the batch with the page of position j as it is when nothing fails
Unfailed(j) == [payload.pages EXCEPT ![j] = "long"]

\* C18: when the page of one draft cannot be fetched or has no body
\* container, that draft keeps its content and every other draft comes back
\* as it does when that page is fetched and has a body
EnricherIsolation ==
    (pc = "returned" /\ payload.kind = "drafts") =>
        \A j \in 1..Len(payload.items) :
            (payload.items[j].sourceUrl # "" /\ payload.pages[j] \in {"null", "noBody"}) =>
                /\ result.articles[j] = payload.items[j]
                /\ \A i \in 1..Len(payload.items) :
                       i # j => result.articles[i]
                                  = enrichDrafts(payload.items, Unfailed(j)).articles[i]

\* C18 witness: the fetch for the second draft failed and the drafts on
\* either side of it were enriched
FailureAmongEnriched ==
    /\ pc = "returned" /\ payload.kind = "drafts"
    /\ Len(payload.items) >= 3
    /\ payload.pages[2] = "null" /\ payload.items[2].sourceUrl # ""
    /\ result.articles[2].content = payload.items[2].content
    /\ result.articles[1].content = BodyText(payload.items[1].sourceUrl)
    /\ result.articles[3].content = BodyText(payload.items[3].sourceUrl)

\* a text without tags and with single spaces only, none at either end
IsPlain(str) ==
    /\ \A i \in 1..Len(str) :
           /\ SubSeq(str, i, i) \notin {"\t", "\n"}
           /\ SubSeq(str, i, i) = "<" => \A j \in (i + 1)..Len(str) : SubSeq(str, j, j) # ">"
           /\ (SubSeq(str, i, i) = " ") => (i > 1 /\ i < Len(str) /\ SubSeq(str, i + 1, i + 1) # " ")

NothingLoaded ==
    \/ dataset.kind # "array"
    \/ dataset.items = <<>>

\* C20: after loadArticles has failed or loaded zero articles no handler
\* raises an uncaught exception, and Search and Generate end with a message
\* displayed
PageNeverCrashesWhenEmpty ==
    (pc = "ready" /\ NothingLoaded) =>
        /\ uncaught = "none"
        /\ lastEvent \in {"search", "generate"} => message.shown

\* C21: the Generate button is enabled only if an article is selected, and it
\* is enabled whenever an article is selected and no call of handleGenerate
\* waits for downloadDocx
GenerateEnabledIffSelected ==
    /\ ~generateDisabled => selectedArticles # {}
    /\ (selectedArticles # {} /\ generating = 0) => ~generateDisabled

\* a generation has completed with an article selected
GeneratedWithSelection ==
    /\ lastEvent = "generated" /\ generating = 0
    /\ selectedArticles # {} /\ ~generateDisabled

\* C29: while the list is displayed, the selected ids are ids of rendered
\* checkboxes
SelectedAreRendered ==
    sectionShown => selectedArticles \subseteq Range(rendered)

\* C30: while a call of handleGenerate waits for downloadDocx the Generate
\* button is disabled, and no second call waits with it
OneGenerationAtATime ==
    /\ generating > 0 => generateDisabled
    /\ generating <= 1

\* the label of the i-th article's header section
LabelOf(i) == result.articles[2 * i].label

\* C22: the document starts with the cover section, the articles follow in
\* input order, the i-th is labelled "Page i of n", and no two articles have
\* the same label
DocumentStructure ==
    (pc = "returned" /\ payload.kind = "selected") =>
        LET n == Len(payload.items)
            sections == result.articles
        IN  /\ Len(sections) = 1 + 2 * n
            /\ sections[1].type = "cover"
            /\ \A i \in 1..n :
                  /\ sections[2 * i].type = "NEXT_PAGE"
                  /\ sections[2 * i].title = payload.items[i].title
                  /\ sections[2 * i + 1].type = "CONTINUOUS"
                  /\ sections[2 * i + 1].text = BodyOf(payload.items[i])
                  /\ LabelOf(i) = PageLabel(i, n)
            /\ \A i, j \in 1..n : i # j => LabelOf(i) # LabelOf(j)

\* C22 witness: a document of three different articles, the last labelled
\* Page 3 of 3
ThreeArticleDocument ==
    /\ pc = "returned" /\ payload.kind = "selected"
    /\ Len(payload.items) = 3
    /\ \A i, j \in 1..3 : i # j => payload.items[i].id # payload.items[j].id
    /\ result.articles[6].label = "Page 3 of 3"

\* the place in allNew of the last draft that has this id and satisfies P
LastPlace(id, P(_)) ==
    {i \in 1..Len(allNew) :
        /\ allNew[i].id = id /\ P(allNew[i])
        /\ \A j \in (i + 1)..Len(allNew) : ~(allNew[j].id = id /\ P(allNew[j]))}

AnyDraft(a) == TRUE
Titled(a) == a.title # ""

\* C23 as stated: allNew is the concatenation of the sources' drafts, the API
\* source first, and of the drafts that share an id the written dataset holds
\* the last one
LaterSeenWinsEveryDraft ==
    pc = "done" =>
        /\ allNew = Contributions(outcomes)
        /\ \A id \in Ids(allNew) : \A i \in LastPlace(id, AnyDraft) :
               StoredUnder(id) = {allNew[i]}

\* C23 as amended: of the drafts that share an id the written dataset holds
\* the last one that has a title
LaterSeenWinsTitledDraft ==
    pc = "done" =>
        /\ allNew = Contributions(outcomes)
        /\ \A id \in Ids(allNew) : \A i \in LastPlace(id, Titled) :
               StoredUnder(id) = {allNew[i]}

\* C23 witness: the API source and a configured source reported the same
\* link, with different fields, and the configured source's draft was written
LaterSourceWon ==
    /\ pc = "done"
    /\ Len(outcomes[1].articles) > 0 /\ ~outcomes[1].threw
    /\ \E k \in 2..Len(outcomes) : \E d \in Range(Pushed(outcomes[k])) :
           /\ d.id = outcomes[1].articles[1].id
           /\ d # outcomes[1].articles[1]
           /\ StoredUnder(d.id) = {d}

\* C24: a feed entry whose publish date parses and lies exactly
\* LOOKBACK_HOURS before the clock reading is outside the window: isRecent is
\* false for the date and scrapeRss delivers no draft made from the entry
FeedBoundaryOutside ==
    (pc = "scraped" /\ payload.kind = "rss" /\ payload.ok) =>
        \A i \in 1..Len(payload.items) :
            LET el == payload.items[i]
            IN  el.pubDate = now - LOOKBACK_HOURS * HourMs =>
                    /\ ~isRecent(el.pubDate, now)
                    /\ ~\E k \in DraftsFor(el.link) :
                           Delivered[k].publishedAt = el.pubDate

\* C25: a draft's content is replaced by the cleaned body text only if that
\* text has more than 200 characters; with 200 or fewer, with no body
\* container, with no page, without a URL or beyond the cap the content is
\* what the strategy set
LengthThreshold ==
    (pc = "returned" /\ payload.kind = "drafts") =>
        \A i \in 1..Len(payload.items) :
            LET draft == payload.items[i]
                page  == payload.pages[i]
                text  == BodyTextOf(draft.sourceUrl, page)
            IN  IF /\ i <= 10 /\ draft.sourceUrl # ""
                   /\ page \notin {"null", "noBody"}
                   /\ Len(text) > 200
                THEN result.articles[i].content = text
                ELSE result.articles[i].content = draft.content

\* C25 witness: a body text of 200 characters was not taken and one of 201
\* characters was
ThresholdStraddled ==
    /\ pc = "returned" /\ payload.kind = "drafts"
    /\ \E i, j \in 1..Len(payload.items) :
          /\ payload.pages[i] = "edge" /\ payload.items[i].sourceUrl # ""
          /\ Len(BodyTextOf(payload.items[i].sourceUrl, "edge")) = 200
          /\ result.articles[i].content = payload.items[i].content
          /\ payload.pages[j] = "long" /\ payload.items[j].sourceUrl # ""
          /\ Len(result.articles[j].content) = 201

\* the URLs of the article pages requested for source s, in request order
ArticleUrlsBy(s) ==
    LET asked == SelectSeq(requests, LAMBDA r : r.by = s /\ r.kind = "article")
    IN  [i \in 1..Len(asked) |-> asked[i].url]

\* the URLs of the drafts of source s that have one, in draft order
DraftUrlsOf(s) ==
    LET withUrl == SelectSeq(outcomes[s + 1].articles, LAMBDA a : a.sourceUrl # "")
    IN  [i \in 1..Len(withUrl) |-> withUrl[i].sourceUrl]

IsPrefix(a, b) == Len(a) <= Len(b) /\ a = SubSeq(b, 1, Len(a))

\* at most one request is in flight, namely the last one issued; requests are
\* issued source by source; the article pages of a source are requested in
\* draft order, one request for each draft that has a URL, all of them by the
\* time the next source is asked
StrictlySequential ==
    /\ \A i \in 1..(Len(requests) - 1) :
           /\ requests[i].state # "inFlight"
           /\ requests[i].by <= requests[i + 1].by
    /\ \A s \in 0..(Len(outcomes) - 1) :
           /\ IsPrefix(ArticleUrlsBy(s), DraftUrlsOf(s))
           /\ (idx > s \/ pc = "merge") =>
                  ArticleUrlsBy(s) = (IF s = 0 \/ SITE_CONFIGS[s].followLinks
                                      THEN DraftUrlsOf(s) ELSE <<>>)

\* C26 as stated: strictly sequential, and no URL is requested again after a
\* request for it failed or timed out
SequentialNoUrlTwice ==
    /\ StrictlySequential
    /\ \A i, j \in 1..Len(requests) :
           (i < j /\ requests[i].url = requests[j].url) => requests[i].state = "ok"

\* C26 as amended: strictly sequential, one request for each call of
\* fetchPage and of fetch, failed or not
SequentialOneRequestPerCall ==
    /\ StrictlySequential
    /\ Len(SelectSeq(requests, LAMBDA r : r.kind # "article")) <= 1 + Len(SITE_CONFIGS)
    /\ \A i, j \in 1..Len(requests) :
           (i < j /\ requests[i].kind # "article") => requests[i].url # requests[j].url

\* C26 witness: a run reached the merge section after the fetch for one draft
\* had failed or timed out and the next draft of the same source was fetched
FailedThenNextDraft ==
    /\ pc = "merge"
    /\ \E i \in 1..(Len(requests) - 1) :
           /\ requests[i].kind = "article" /\ requests[i].state \in {"failed", "timedOut"}
           /\ requests[i + 1].kind = "article" /\ requests[i + 1].by = requests[i].by
           /\ requests[i + 1].url # requests[i].url

\* C27: the dataset file changes only in the step that ends run(), which is
\* taken from the merge section once, after the API source and every
\* configured source were handled; a run that ends in a fatal failure leaves
\* the file as it was, and nothing is written after the end
WriteOnceAtEnd ==
    [][ /\ (file' # file \/ (pc' = "done" /\ pc # "done")) =>
               /\ pc = "merge" /\ pc' = "done"
               /\ Len(outcomes) = 1 + Len(SITE_CONFIGS)
        /\ pc' = "fatal" => file' = file
        /\ pc \in {"done", "fatal"} => (file' = file /\ pc' = pc) ]_vars

\* C27 witness: a run handled every source and wrote a list that differs from
\* the one it had loaded
WroteAfterAllSources ==
    /\ pc = "done"
    /\ Len(outcomes) = 1 + Len(SITE_CONFIGS)
    /\ file # existingArticles

\* C28: at the end of a run, an existing record whose publishedAt is
\* non-empty and unparseable, and whose id no inserted draft of this run
\* carries, is not in the written list although isRecent accepts its date;
\* so every record of the written list with such a date is a draft this run
\* collected
UnparseableDateNeedsRescrape ==
    pc = "done" =>
        /\ \A e \in Range(existingArticles) :
               ( /\ Unparseable(e.publishedAt)
                 /\ ~\E n \in Range(allNew) : n.id = e.id /\ Titled(n) )
               => (isRecent(e.publishedAt, now) /\ e \notin Range(file))
        /\ \A r \in Range(file) :
               Unparseable(r.publishedAt)
               => (isRecent(r.publishedAt, now) /\ r \in Range(allNew))

\* C28 witness: a draft the listing strategy had accepted with an unparseable
\* date on an earlier day was loaded by a run that did not collect it again,
\* and is gone from what that run wrote
ListingDraftGoneWhenNotRescraped ==
    /\ pc = "done"
    /\ now > Hours(StartHour)
    /\ \E e \in Range(existingArticles) :
           /\ Unparseable(e.publishedAt)
           /\ e.title = "Bears win"
           /\ e.id \notin Ids(allNew)
           /\ StoredUnder(e.id) = {}

====
